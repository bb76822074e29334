---------------------------- MODULE EdgeCapture_proofs ----------------------------
(***************************************************************************)
(* Proofs about one edge_capture.py process after another, for any limits  *)
(* of the squelches, any stream of frames, any length of segments, place   *)
(* of the upload queue and any number of failures, kills and restarts.     *)
(* The squelches are functions of the frames heard: what they do with one  *)
(* frame is stated by lemmas about constants, which the state of the       *)
(* process then is put into.                                               *)
(***************************************************************************)
EXTENDS EdgeCapture, FiniteSetTheorems, SequenceTheorems, TLAPS

-----------------------------------------------------------------------------
(* The squelch that cuts clips, as a function of the frames heard.  V is    *)
(* the set of the loud frames.                                              *)

Frames == [at : Nat, live : BOOLEAN]

Detectors ==
    [open : BOOLEAN, frames : Seq(Frames), quiet : Nat, preRoll : Seq(Nat)]

\* An open burst, of the frames a .. m and a pre-roll before them.
Burst(d, a, m, V) ==
    /\ d.open /\ a \in Nat \ {0} /\ m \in Nat /\ a <= m
    /\ Len(d.frames) - (m - a + 1) \in 0 .. PreRoll
    /\ \A p \in 1 .. Len(d.frames) - (m - a + 1) : ~d.frames[p].live
    /\ \A i \in a .. m : d.frames[Len(d.frames) - (m - i)] = [at |-> i, live |-> i \in V]
    /\ a \in V /\ d.quiet \in 0 .. m - a /\ m - d.quiet \in V
    /\ \A i \in m - d.quiet + 1 .. m : i \notin V

\* It has not come to its end.
GoesOn(d, a, m) ==
    m > a => Len(d.frames) < MaxClip /\ (d.quiet > 0 => d.quiet < PostRoll)

\* There is no pause of PostRoll frames in a .. m.
NoPause(a, m, V) ==
    PostRoll > 0 => \A i \in a .. m + 1 - PostRoll : \E j \in i .. i + PostRoll - 1 : j \in V

\* The empty sequence, for every kind of element.
LEMMA EmptyIs ==
    /\ \A S : <<>> \in Seq(S)
    /\ Len(<<>>) = 0
  <1> DEFINE none == <<>>
  <1>1. \A S : none \in Seq(S)
    BY EmptySeq
  <1>2. Len(none) = 0
    BY EmptySeq
  <1> QED
    BY <1>1, <1>2

\* A loud frame opens a burst of one frame, after the pre-roll.
LEMMA LoudOpens ==
    ASSUME NEW d \in Detectors, ~d.open, Len(d.preRoll) <= PreRoll,
           NEW V, NEW i \in Nat \ {0}, i \in V
    PROVE  LET b == Heard(d, i, TRUE)
           IN  b \in Detectors /\ b.preRoll = d.preRoll
               /\ Burst(b, i, i, V) /\ GoesOn(b, i, i) /\ NoPause(i, i, V)
  <1> DEFINE b == Heard(d, i, TRUE)
             muted == [p \in DOMAIN d.preRoll |-> Muted(d.preRoll[p])]
             new == [at |-> i, live |-> TRUE]
             n == Len(d.preRoll)
  <1>1. d.preRoll \in Seq(Nat) /\ n \in Nat /\ DOMAIN d.preRoll = 1 .. n /\ n <= PreRoll
    BY DEF Detectors
  <1>2. muted \in Seq(Frames) /\ Len(muted) = n /\ \A p \in 1 .. n : ~muted[p].live
    <2>1. \A p \in 1 .. n : Muted(d.preRoll[p]) \in Frames /\ ~Muted(d.preRoll[p]).live
      BY <1>1 DEF Muted, Frames
    <2>2. muted = [p \in 1 .. n |-> Muted(d.preRoll[p])]
      BY <1>1
    <2> QED
      BY <1>1, <2>1, <2>2
  <1>3. new \in Frames
    BY DEF Frames
  <1> HIDE DEF muted, new
  <1>4. /\ b.open = TRUE /\ b.frames = Append(muted, new) /\ b.quiet = 0
        /\ b.preRoll = d.preRoll
        /\ b = [open |-> TRUE, frames |-> Append(muted, new), quiet |-> 0, preRoll |-> d.preRoll]
    BY DEF Heard, Detectors, muted, new
  <1>5. /\ Append(muted, new) \in Seq(Frames) /\ Len(Append(muted, new)) = n + 1
        /\ Append(muted, new)[n + 1] = new
        /\ \A p \in 1 .. n : Append(muted, new)[p] = muted[p]
    BY <1>1, <1>2, <1>3
  <1> HIDE DEF b, n
  <1>6. b \in Detectors
    BY <1>1, <1>4, <1>5 DEF Detectors
  <1>7. Burst(b, i, i, V)
    <2>1. Len(b.frames) = n + 1 /\ (n + 1) - (i - i + 1) = n /\ (n + 1) - (i - i) = n + 1
      BY <1>1, <1>4, <1>5
    <2>2. \A p \in 1 .. n : ~b.frames[p].live
      BY <1>1, <1>2, <1>4, <1>5
    <2>3. \A k \in i .. i : b.frames[(n + 1) - (i - k)] = [at |-> k, live |-> k \in V]
      <3>1. \A k \in i .. i : k = i
        OBVIOUS
      <3> QED
        BY <1>4, <1>5, <2>1, <3>1 DEF new
    <2>4. b.quiet = 0 /\ i - 0 = i /\ i - i = 0 /\ \A k \in i - 0 + 1 .. i : FALSE
      BY <1>4
    <2> QED
      BY <1>1, <1>4, <2>1, <2>2, <2>3, <2>4, DetectorAssumption DEF Burst
  <1>8. GoesOn(b, i, i)
    BY DEF GoesOn
  <1>9. NoPause(i, i, V)
    <2>1. ASSUME PostRoll > 0, NEW k \in i .. i + 1 - PostRoll
          PROVE  k = i /\ i \in k .. k + PostRoll - 1
      BY <2>1, DetectorAssumption
    <2> QED
      BY <2>1 DEF NoPause
  <1> QED
    BY <1>4, <1>6, <1>7, <1>8, <1>9 DEF b

\* The next frame makes an open burst longer.
LEMMA BurstGrows ==
    ASSUME NEW d \in Detectors, NEW V, NEW a, NEW m, Burst(d, a, m, V)
    PROVE  LET b == Heard(d, m + 1, m + 1 \in V)
           IN  /\ b \in Detectors /\ b.preRoll = d.preRoll
               /\ Burst(b, a, m + 1, V) /\ Len(b.frames) = Len(d.frames) + 1
               /\ b.quiet = IF m + 1 \in V THEN 0 ELSE d.quiet + 1
  <1> DEFINE new == [at |-> m + 1, live |-> m + 1 \in V]
             b == Heard(d, m + 1, m + 1 \in V)
             n == Len(d.frames)
             q == IF m + 1 \in V THEN 0 ELSE d.quiet + 1
  <1>1. /\ d.frames \in Seq(Frames) /\ n \in Nat /\ d.quiet \in Nat /\ d.open
        /\ a \in Nat \ {0} /\ m \in Nat /\ a <= m
    BY DEF Detectors, Burst
  <1>2. new \in Frames
    BY <1>1 DEF Frames
  <1> HIDE DEF new
  <1>3. b = [open |-> TRUE, frames |-> Append(d.frames, new), quiet |-> q, preRoll |-> d.preRoll]
    BY <1>1 DEF Heard, Detectors, new
  <1>4. /\ Append(d.frames, new) \in Seq(Frames) /\ Len(Append(d.frames, new)) = n + 1
        /\ Append(d.frames, new)[n + 1] = new
        /\ \A p \in 1 .. n : Append(d.frames, new)[p] = d.frames[p]
    BY <1>1, <1>2
  <1> HIDE DEF b, n
  <1>5. b \in Detectors
    BY <1>1, <1>3, <1>4 DEF Detectors
  <1>6. (n + 1) - ((m + 1) - a + 1) = n - (m - a + 1) /\ n - (m - a + 1) \in 0 .. PreRoll
    BY <1>1 DEF Burst, n
  <1>7. \A p \in 1 .. n - (m - a + 1) : ~b.frames[p].live
    <2>1. \A p \in 1 .. n - (m - a + 1) : p \in 1 .. n
      BY <1>1
    <2> QED
      BY <1>3, <1>4, <2>1 DEF Burst, n
  <1>8. ASSUME NEW i \in a .. m + 1
        PROVE  b.frames[(n + 1) - ((m + 1) - i)] = [at |-> i, live |-> i \in V]
    <2>1. CASE i = m + 1
      <3>1. (n + 1) - ((m + 1) - i) = n + 1
        BY <1>1, <2>1
      <3> QED
        BY <1>3, <1>4, <2>1, <3>1 DEF new
    <2>2. CASE i # m + 1
      <3>1. i \in a .. m /\ (n + 1) - ((m + 1) - i) = n - (m - i)
        BY <1>1, <2>2
      <3>2. n - (m - i) \in 1 .. n
        BY <1>1, <1>6, <3>1, DetectorAssumption
      <3>3. d.frames[n - (m - i)] = [at |-> i, live |-> i \in V]
        BY <3>1 DEF Burst, n
      <3> QED
        BY <1>3, <1>4, <3>1, <3>2, <3>3
    <2> QED
      BY <2>1, <2>2
  <1>9. /\ q \in 0 .. (m + 1) - a /\ (m + 1) - q \in V
        /\ \A i \in (m + 1) - q + 1 .. m + 1 : i \notin V
    <2>1. CASE m + 1 \in V
      BY <1>1, <2>1
    <2>2. CASE m + 1 \notin V
      <3>1. d.quiet \in 0 .. m - a /\ m - d.quiet \in V
            /\ \A i \in m - d.quiet + 1 .. m : i \notin V
        BY DEF Burst
      <3>2. q = d.quiet + 1 /\ (m + 1) - q = m - d.quiet
        BY <1>1, <2>2
      <3> HIDE DEF q
      <3>3. \A i \in (m + 1) - q + 1 .. m + 1 : i = m + 1 \/ i \in m - d.quiet + 1 .. m
        BY <1>1, <3>2
      <3>4. \A i \in (m + 1) - q + 1 .. m + 1 : i \notin V
        BY <2>2, <3>1, <3>3
      <3>5. q \in 0 .. (m + 1) - a
        BY <1>1, <3>1, <3>2
      <3> QED
        BY <3>1, <3>2, <3>4, <3>5
    <2> QED
      BY <2>1, <2>2
  <1>10. Burst(b, a, m + 1, V)
    <2>1. Len(b.frames) = n + 1 /\ b.open /\ b.quiet = q
      BY <1>3, <1>4
    <2>2. a \in V /\ m + 1 \in Nat /\ a <= m + 1
      BY <1>1 DEF Burst
    <2> HIDE DEF q
    <2> QED
      BY <1>1, <1>6, <1>7, <1>8, <1>9, <2>1, <2>2 DEF Burst
  <1> QED
    BY <1>3, <1>4, <1>5, <1>10 DEF b, n

\* What the largest and the smallest of a set of numbers are.
LEMMA MinMaxAre ==
    ASSUME NEW S \in SUBSET Nat, NEW x \in S, NEW y \in S,
           \A z \in S : x <= z /\ z <= y
    PROVE  Min(S) = x /\ Max(S) = y
  <1>1. \A z \in S : (\A w \in S : z <= w) => z = x
    OBVIOUS
  <1>2. \A z \in S : (\A w \in S : z >= w) => z = y
    OBVIOUS
  <1>3. \A w \in S : x <= w /\ y >= w
    OBVIOUS
  <1> QED
    BY <1>1, <1>2, <1>3 DEF Min, Max

\* Trimmed to its loud frames, a burst gives the clip from the first to the last.
LEMMA ClipOfBurst ==
    ASSUME NEW d \in Detectors, NEW V, NEW a, NEW m, Burst(d, a, m, V)
    PROVE  LET z == m - d.quiet
           IN  /\ z \in a .. m
               /\ ClipsOf(d) = IF z - a + 1 < MinClip THEN {}
                               ELSE {[first |-> a, length |-> z - a + 1, last |-> z]}
  <1> DEFINE n == Len(d.frames)
             z == m - d.quiet
             h == n - (m - a + 1)
             loud == {p \in DOMAIN d.frames : d.frames[p].live}
             x == n - (m - a)
             y == n - d.quiet
             t == TrimUnsquelchedEdges(d.frames)
  <1>1. /\ d.frames \in Seq(Frames) /\ n \in Nat /\ d.quiet \in Nat /\ DOMAIN d.frames = 1 .. n
        /\ a \in Nat \ {0} /\ m \in Nat /\ a <= m /\ d.quiet \in 0 .. m - a
        /\ h \in 0 .. PreRoll /\ PreRoll \in Nat
    BY DetectorAssumption DEF Detectors, Burst
  <1> HIDE DEF n
  <1>2. z \in a .. m /\ z \in Nat /\ x = h + 1 /\ x \in 1 .. n /\ y \in x .. n /\ y - x = z - a
    BY <1>1
  <1>3. \A p \in 1 .. h : ~d.frames[p].live
    BY DEF Burst, n
  <1>4. \A i \in a .. m : d.frames[n - (m - i)] = [at |-> i, live |-> i \in V]
    BY DEF Burst, n
  <1>5. a \in V /\ z \in V /\ \A i \in z + 1 .. m : i \notin V
    BY DEF Burst
  <1> HIDE DEF z, h
  <1>6. d.frames[x] = [at |-> a, live |-> TRUE] /\ d.frames[y] = [at |-> z, live |-> TRUE]
    <2>1. a \in Nat /\ m \in Nat /\ a <= m /\ n \in Nat /\ d.quiet \in Nat
      BY <1>1
    <2>2. a \in a .. m /\ n - (m - z) = y
      BY <2>1 DEF z
    <2> QED
      BY <1>2, <1>4, <1>5, <2>2
  <1>7. Min(loud) = x /\ Max(loud) = y
    <2>1. x \in loud /\ y \in loud /\ loud \in SUBSET Nat
      <3>1. x \in DOMAIN d.frames /\ y \in DOMAIN d.frames
        BY <1>1, <1>2
      <3>2. d.frames[x].live /\ d.frames[y].live
        BY <1>6
      <3> QED
        BY <1>1, <3>1, <3>2
    <2>2. ASSUME NEW p \in loud PROVE x <= p /\ p <= y
      <3>1. p \in 1 .. n /\ d.frames[p].live
        BY <1>1
      <3>2. p > h
        BY <1>1, <1>3, <3>1
      <3> DEFINE i == m - (n - p)
      <3>3. i \in a .. m /\ n - (m - i) = p
        BY <1>1, <3>1, <3>2 DEF h
      <3> HIDE DEF i
      <3>4. i \in V
        <4>1. d.frames[p] = [at |-> i, live |-> i \in V]
          BY <1>4, <3>3
        <4> DEFINE hit == i \in V
        <4>2. d.frames[p] = [at |-> i, live |-> hit]
          BY <4>1
        <4> HIDE DEF hit
        <4>3. d.frames[p].live = hit
          BY <4>2
        <4>4. hit
          BY <3>1, <4>3, Zenon
        <4> QED
          BY <4>4 DEF hit
      <3>5. ~(i \in z + 1 .. m)
        BY <1>5, <3>1, <3>4
      <3>6. i <= z
        BY <1>1, <1>2, <3>3, <3>5
      <3>7. p = n - (m - i) /\ x = n - (m - a) /\ y = n - (m - z)
        <4>1. p = n - (m - i)
          BY <3>3
        <4>2. n - d.quiet = n - (m - z)
          BY <1>1 DEF z
        <4> QED
          BY <4>1, <4>2
      <3> QED
        BY <1>1, <1>2, <3>3, <3>6, <3>7
    <2> HIDE DEF loud
    <2> QED
      BY <2>1, <2>2, MinMaxAre
  <1>8. t = SubSeq(d.frames, x, y)
    <2>1. x \in loud
      BY <1>1, <1>2, <1>6
    <2> QED
      BY <1>7, <2>1 DEF TrimUnsquelchedEdges
  <1> HIDE DEF t, loud, x, y
  <1>9. /\ Len(t) = y - x + 1
        /\ \A p \in 1 .. y - x + 1 : t[p] = d.frames[x + p - 1]
    <2>1. x \in 1 .. n /\ y \in x .. n /\ y - x + 1 > 0
      BY <1>1, <1>2
    <2>2. /\ Len(SubSeq(d.frames, x, y)) = IF x <= y THEN y - x + 1 ELSE 0
          /\ \A p \in 1 .. y - x + 1 : SubSeq(d.frames, x, y)[p] = d.frames[x + p - 1]
      <3>1. \A p \in x .. y : d.frames[p] \in Frames
        BY <1>1, <1>2
      <3>2. x \in Int /\ y \in Int
        BY <1>1, <1>2
      <3> QED
        BY <3>1, <3>2, SubSeqProperties
    <2>3. x <= y
      BY <1>2
    <2> QED
      BY <1>8, <2>2, <2>3
  <1>10. Len(t) = z - a + 1 /\ Len(t) \in Nat
    BY <1>1, <1>2, <1>9
  <1>11. t[1].at = a /\ t[Len(t)].at = z
    <2>1. 1 \in 1 .. y - x + 1 /\ x + 1 - 1 = x /\ y - x + 1 \in 1 .. y - x + 1
          /\ x + (y - x + 1) - 1 = y
      BY <1>1, <1>2
    <2> QED
      BY <1>6, <1>9, <2>1
  <1>12. ClipsOf(d) = IF Len(t) < MinClip THEN {}
                      ELSE {[first |-> t[1].at, length |-> Len(t), last |-> t[Len(t)].at]}
    BY DEF ClipsOf, t
  <1> QED
    BY <1>2, <1>10, <1>11, <1>12 DEF z

\* How a burst that goes on can end.
LEMMA BurstEnds ==
    ASSUME NEW d \in Detectors, NEW V, NEW a, NEW m, Burst(d, a, m, V), GoesOn(d, a, m)
    PROVE  LET b == Heard(d, m + 1, m + 1 \in V)
           IN  /\ ~Ends(d, b) => GoesOn(b, a, m + 1)
               /\ Ends(d, b) /\ m + 1 \in V => (m + 1) - a + 1 >= MinClip
               /\ (m + 1) - a + 1 <= MaxClip
  <1> DEFINE b == Heard(d, m + 1, m + 1 \in V)
  <1>1. /\ b \in Detectors /\ Burst(b, a, m + 1, V) /\ Len(b.frames) = Len(d.frames) + 1
        /\ b.quiet = IF m + 1 \in V THEN 0 ELSE d.quiet + 1
    BY BurstGrows
  <1> HIDE DEF b
  <1>2. /\ d.open /\ a \in Nat \ {0} /\ m \in Nat /\ a <= m
        /\ Len(b.frames) - ((m + 1) - a + 1) \in 0 .. PreRoll
        /\ Len(b.frames) \in Nat /\ Len(d.frames) \in Nat /\ b.quiet \in Nat
    BY <1>1 DEF Burst, Detectors
  <1>3. ~Ends(d, b) => GoesOn(b, a, m + 1)
    BY <1>2, DetectorAssumption DEF Ends, GoesOn
  <1>4. Ends(d, b) /\ m + 1 \in V => (m + 1) - a + 1 >= MinClip
    <2>1. Ends(d, b) /\ m + 1 \in V => Len(b.frames) >= MaxClip
      BY <1>1, <1>2 DEF Ends
    <2> QED
      BY <1>2, <2>1, DetectorAssumption
  <1>5. (m + 1) - a + 1 <= MaxClip
    <2>1. CASE m = a
      BY <1>2, <2>1, DetectorAssumption
    <2>2. CASE m > a
      <3>1. Len(d.frames) < MaxClip
        BY <2>2 DEF GoesOn
      <3> QED
        BY <1>1, <1>2, <3>1, DetectorAssumption
    <2> QED
      BY <1>2, <2>1, <2>2
  <1> QED
    BY <1>3, <1>4, <1>5 DEF b

\* A burst that goes on has no long pause with its next frame either.
LEMMA PauseIsShort ==
    ASSUME NEW d \in Detectors, NEW V, NEW a, NEW m, Burst(d, a, m, V), GoesOn(d, a, m),
           NoPause(a, m, V), GoesOn(Heard(d, m + 1, m + 1 \in V), a, m + 1)
    PROVE  NoPause(a, m + 1, V)
  <1> DEFINE b == Heard(d, m + 1, m + 1 \in V)
             z == m + 1 - b.quiet
  <1>1. /\ a \in Nat \ {0} /\ m \in Nat /\ a <= m
        /\ Burst(b, a, m + 1, V) /\ b \in Detectors
    <2>1. a \in Nat \ {0} /\ m \in Nat /\ a <= m
      BY DEF Burst
    <2> QED
      BY <2>1, BurstGrows
  <1>5. GoesOn(b, a, m + 1)
    OBVIOUS
  <1> HIDE DEF b
  <1>2. b.quiet \in Nat /\ b.quiet \in 0 .. m + 1 - a /\ m + 1 - b.quiet \in V
    BY <1>1 DEF Burst, Detectors
  <1>3. b.quiet > 0 => b.quiet < PostRoll
    BY <1>1, <1>5 DEF GoesOn
  <1>4. ASSUME PostRoll > 0, NEW i \in a .. (m + 1) + 1 - PostRoll
        PROVE  \E j \in i .. i + PostRoll - 1 : j \in V
    <2>1. CASE i \in a .. m + 1 - PostRoll
      BY <1>4, <2>1 DEF NoPause
    <2>2. CASE i = (m + 1) + 1 - PostRoll
      <3>1. z \in i .. i + PostRoll - 1
        BY <1>1, <1>2, <1>3, <1>4, <2>2, DetectorAssumption
      <3> QED
        BY <1>2, <3>1
    <2> QED
      BY <1>1, <1>4, <2>1, <2>2, DetectorAssumption
  <1> QED
    BY <1>4 DEF NoPause

\* What a clip is: a run of frames, loud at both ends, within the limits and without a
\* pause of PostRoll frames.
ClipIsRight(c, V) ==
    /\ c.from \in Nat \ {0} /\ c.first \in Nat /\ c.length \in Nat /\ c.from <= c.first
    /\ c.last = c.first + c.length - 1 /\ c.first \in V /\ c.last \in V
    /\ c.length \in MinClip .. MaxClip
    /\ PostRoll > 0 =>
          \A i \in c.first .. c.last - PostRoll : \E j \in i .. i + PostRoll - 1 : j \in V

ClipsAreRight(C, V) ==
    /\ \A c \in C : ClipIsRight(c, V)
    /\ \A c, d \in C : c = d \/ c.last < d.first \/ d.last < c.first

InClip(C, i) == \E c \in C : i \in c.first .. c.last

\* A run of loud frames of the length of a clip.
IsRun(i, f, m, V) == i \in f .. m /\ i + MinClip - 1 <= m /\ i .. i + MinClip - 1 \subseteq V

\* Of the runs of the frames f .. m, a part is in a clip or in the burst from a on.
RunsKept(C, f, a, m, V) ==
    \A i \in Nat : IsRun(i, f, m, V) =>
        \E j \in i .. i + MinClip - 1 : j >= a \/ InClip(C, j)

\* The burst that is open begins at a, or the next one cannot begin before a; a frame
\* that was loud just before is in a clip, if the stream goes on.
BurstBegins(d, C, f, a, m, V, goingOn) ==
    /\ a \in f .. m + 1
    /\ IF d.open THEN Burst(d, a, m, V) /\ GoesOn(d, a, m) /\ NoPause(a, m, V) ELSE a = m + 1
    /\ \A c \in C : c.last < a
    /\ goingOn /\ a > f /\ a - 1 \in V => InClip(C, a - 1)
    /\ RunsKept(C, f, a, m, V)

SquelchIsRight(d, C, f, m, V, goingOn) ==
    /\ d \in Detectors /\ Len(d.preRoll) <= PreRoll
    /\ f \in Nat \ {0} /\ m \in Nat /\ m + 1 >= f
    /\ ClipsAreRight(C, V)
    /\ \E a \in Nat : BurstBegins(d, C, f, a, m, V, goingOn)

\* The clips a burst gives to those of the process that began with frame f.
ClipsFrom(f, found) ==
    {[from |-> f, first |-> c.first, length |-> c.length, last |-> c.last] : c \in found}

\* A quiet frame leaves a closed squelch closed, with a pre-roll that is not too long.
LEMMA QuietStays ==
    ASSUME NEW d \in Detectors, ~d.open, Len(d.preRoll) <= PreRoll, NEW i \in Nat
    PROVE  LET b == Heard(d, i, FALSE)
           IN  b \in Detectors /\ ~b.open /\ Len(b.preRoll) <= PreRoll
  <1> DEFINE kept == Append(d.preRoll, i)
             after == IF Len(kept) > PreRoll THEN Tail(kept) ELSE kept
             b == Heard(d, i, FALSE)
  <1>1. b = [d EXCEPT !.preRoll = after]
    BY DEF Heard
  <1>2. d.preRoll \in Seq(Nat) /\ Len(d.preRoll) \in Nat
    BY DEF Detectors
  <1>3. /\ kept \in Seq(Nat) /\ Len(kept) = Len(d.preRoll) + 1 /\ kept # <<>>
    BY <1>2
  <1>4. Tail(kept) \in Seq(Nat) /\ Len(Tail(kept)) = Len(d.preRoll)
    <2> HIDE DEF kept
    <2> QED
      BY <1>2, <1>3, HeadTailProperties
  <1> HIDE DEF kept
  <1>5. after \in Seq(Nat) /\ Len(after) <= PreRoll
    BY <1>2, <1>3, <1>4, DetectorAssumption
  <1> HIDE DEF after, b
  <1> QED
    BY <1>1, <1>5 DEF Detectors, b

\* A burst that was ended leaves a closed squelch.
LEMMA FinishedIsSilent ==
    ASSUME NEW d \in Detectors, Len(d.preRoll) <= PreRoll
    PROVE  Finished(d) \in Detectors /\ ~Finished(d).open /\ Len(Finished(d).preRoll) <= PreRoll
  <1> DEFINE none == <<>>
             after == IF ClipsOf(d) = {} THEN d.preRoll ELSE none
  <1>1. none \in Seq(Nat) /\ none \in Seq(Frames) /\ Len(none) = 0
    BY EmptyIs
  <1>2. Silent = [open |-> FALSE, frames |-> none, quiet |-> 0, preRoll |-> none]
    BY DEF Silent
  <1>3. Finished(d) = [Silent EXCEPT !.preRoll = after]
    BY DEF Finished
  <1> HIDE DEF none
  <1>4. after \in Seq(Nat) /\ Len(after) <= PreRoll
    BY <1>1, DetectorAssumption DEF Detectors
  <1> HIDE DEF after
  <1>5. Finished(d) = [open |-> FALSE, frames |-> none, quiet |-> 0, preRoll |-> after]
    BY <1>2, <1>3
  <1> QED
    BY <1>1, <1>4, <1>5 DEF Detectors

\* The clips stay right when the burst a .. m gives its own.
LEMMA ClipsGrow ==
    ASSUME NEW b \in Detectors, NEW V, NEW a, NEW m, Burst(b, a, m, V),
           m - a + 1 <= MaxClip,
           NEW f \in Nat \ {0}, a >= f,
           NEW n \in Nat, n + 1 >= m, NoPause(a, n, V),
           NEW C, ClipsAreRight(C, V), \A c \in C : c.last < a,
           NEW D, D = C \cup ClipsFrom(f, ClipsOf(b))
    PROVE  /\ ClipsAreRight(D, V)
           /\ \A c \in D : c.last < m + 1
           /\ m - b.quiet - a + 1 >= MinClip => \A i \in a .. m - b.quiet : InClip(D, i)
  <1> DEFINE z == m - b.quiet
             found == ClipsOf(b)
             new == [from |-> f, first |-> a, length |-> z - a + 1, last |-> z]
  <1>1. z \in a .. m /\ found = IF z - a + 1 < MinClip THEN {}
                                ELSE {[first |-> a, length |-> z - a + 1, last |-> z]}
    BY ClipOfBurst
  <1>2. a \in Nat \ {0} /\ m \in Nat /\ a \in V /\ z \in V
    BY DEF Burst
  <1>3. PostRoll > 0 => \A i \in a .. z - PostRoll : \E j \in i .. i + PostRoll - 1 : j \in V
    <2> HIDE DEF z
    <2>1. ASSUME PostRoll > 0, NEW i \in a .. z - PostRoll
          PROVE  i \in a .. n + 1 - PostRoll
      BY <1>1, <1>2, <2>1, DetectorAssumption
    <2> QED
      BY <2>1 DEF NoPause
  <1> HIDE DEF z
  <1>0. D = C \cup ClipsFrom(f, found)
    OBVIOUS
  <1> HIDE DEF found
  <1>4. CASE z - a + 1 < MinClip
    <2>1. found = {}
      BY <1>1, <1>4
    <2>2. ClipsFrom(f, found) = {}
      BY <2>1 DEF ClipsFrom
    <2>3. D = C
      BY <1>0, <2>2
    <2>4. \A c \in C : c.last < m + 1
      <3> TAKE c \in C
      <3>1. c.last \in Int
        BY DEF ClipsAreRight, ClipIsRight
      <3> QED
        BY <1>1, <1>2, <3>1
    <2>5. ~(z - a + 1 >= MinClip)
      BY <1>1, <1>2, <1>4, DetectorAssumption
    <2>6. ClipsAreRight(D, V) /\ \A c \in D : c.last < m + 1
      BY <2>3, <2>4
    <2> QED
      BY <1>4, <2>1, <2>5, <2>6 DEF z
  <1>5. CASE z - a + 1 >= MinClip
    <2>1. found = {[first |-> a, length |-> z - a + 1, last |-> z]}
      BY <1>1, <1>2, <1>5, DetectorAssumption
    <2>2. ClipsFrom(f, found) = {new}
      BY <2>1 DEF ClipsFrom
    <2>3. ClipIsRight(new, V)
      <3>1. z - a + 1 \in Nat /\ z - a + 1 <= MaxClip /\ a + (z - a + 1) - 1 = z
        BY <1>1, <1>2, DetectorAssumption
      <3> QED
        BY <1>1, <1>2, <1>3, <1>5, <3>1, DetectorAssumption DEF ClipIsRight
    <2>4. new.first = a /\ new.last = z
      OBVIOUS
    <2> HIDE DEF new
    <2>5. \A c \in C : c.last < new.first
      BY <2>4
    <2>6. ClipsAreRight(D, V)
      BY <1>0, <2>2, <2>3, <2>5 DEF ClipsAreRight
    <2>7. \A c \in D : c.last < m + 1
      <3> TAKE c \in D
      <3>1. CASE c = new
        BY <1>1, <1>2, <2>4, <3>1
      <3>2. CASE c \in C
        <4>1. c.last \in Int
          BY <3>2 DEF ClipsAreRight, ClipIsRight
        <4> QED
          BY <1>1, <1>2, <3>2, <4>1
      <3> QED
        BY <1>0, <2>2, <3>1, <3>2
    <2>8. \A i \in a .. z : InClip(D, i)
      BY <1>0, <2>2, <2>4 DEF InClip
    <2>9. found # {} /\ ~(z - a + 1 < MinClip)
      BY <1>1, <1>2, <1>5, <2>1, DetectorAssumption
    <2> QED
      BY <2>6, <2>7, <2>8, <2>9 DEF z, found
  <1>6. z - a + 1 < MinClip \/ z - a + 1 >= MinClip
    BY <1>1, <1>2, DetectorAssumption
  <1> QED
    BY <1>4, <1>5, <1>6

\* Runs stay kept when the burst a .. m ends, whether it gave a clip or not.
LEMMA RunsStayKept ==
    ASSUME NEW b \in Detectors, NEW V, NEW a, NEW m, Burst(b, a, m, V),
           NEW f \in Nat \ {0}, a >= f, NEW C, NEW D, C \subseteq D,
           RunsKept(C, f, a, m, V),
           a > f /\ a - 1 \in V => InClip(C, a - 1),
           m - b.quiet - a + 1 >= MinClip => \A i \in a .. m - b.quiet : InClip(D, i)
    PROVE  RunsKept(D, f, m + 1, m, V)
  <1> DEFINE z == m - b.quiet
  <1>1. /\ a \in Nat \ {0} /\ m \in Nat /\ z \in a .. m /\ z \in V
        /\ \A i \in z + 1 .. m : i \notin V
    BY ClipOfBurst DEF Burst
  <1>2. z - a + 1 >= MinClip => \A i \in a .. z : InClip(D, i)
    OBVIOUS
  <1> HIDE DEF z
  <1>3. \A i : InClip(C, i) => InClip(D, i)
    BY DEF InClip
  <1>4. ASSUME NEW i \in Nat, IsRun(i, f, m, V)
        PROVE  \E j \in i .. i + MinClip - 1 : InClip(D, j)
    <2> DEFINE e == i + MinClip - 1
    <2>1. i \in f .. m /\ e <= m /\ i .. e \subseteq V /\ e \in i .. e /\ e \in Nat
      BY <1>4, DetectorAssumption DEF IsRun
    <2>2. PICK j \in i .. e : j >= a \/ InClip(C, j)
      BY <1>4 DEF RunsKept
    <2> HIDE DEF e
    <2>3. CASE InClip(C, j)
      BY <1>3, <2>2, <2>3 DEF e
    <2>4. CASE j >= a /\ i < a
      <3>1. a - 1 \in i .. e /\ a > f
        BY <1>1, <2>1, <2>2, <2>4
      <3>2. InClip(D, a - 1)
        BY <1>3, <2>1, <3>1
      <3> QED
        BY <3>1, <3>2 DEF e
    <2>5. CASE j >= a /\ i >= a
      <3>1. e \in V /\ ~(e \in z + 1 .. m)
        BY <1>1, <2>1
      <3>2. e <= z
        BY <1>1, <2>1, <3>1
      <3>3. z - a + 1 >= MinClip /\ i \in a .. z
        BY <1>1, <2>1, <2>5, <3>2, DetectorAssumption DEF e
      <3>4. InClip(D, i)
        BY <1>2, <3>3
      <3>5. i \in i .. e
        BY <2>1
      <3> QED
        BY <3>4, <3>5 DEF e
    <2> QED
      BY <1>1, <2>1, <2>2, <2>3, <2>4, <2>5
  <1> QED
    BY <1>4 DEF RunsKept

\* The runs kept before frame m + 1 are kept with it.
LEMMA RunsGoOn ==
    ASSUME NEW C, NEW f \in Nat \ {0}, NEW m \in Nat, NEW V, NEW a \in f .. m + 1,
           RunsKept(C, f, a, m, V),
           NEW e, e = a \/ (a = m + 1 /\ e = m + 2 /\ m + 1 \notin V)
    PROVE  RunsKept(C, f, e, m + 1, V)
  <1>1. ASSUME NEW i \in Nat, IsRun(i, f, m + 1, V)
        PROVE  \E j \in i .. i + MinClip - 1 : j >= e \/ InClip(C, j)
    <2> DEFINE z == i + MinClip - 1
    <2>1. z \in Nat /\ i \in f .. m + 1 /\ z <= m + 1 /\ i .. z \subseteq V /\ i <= z
      BY <1>1, DetectorAssumption DEF IsRun
    <2>2. CASE z = m + 1
      <3>1. z \in i .. z /\ z \in V
        BY <2>1
      <3>2. e = a /\ z >= e
        BY <2>1, <2>2, <3>1
      <3> QED
        BY <3>1, <3>2
    <2>3. CASE z # m + 1
      <3>1. IsRun(i, f, m, V)
        BY <2>1, <2>3, DetectorAssumption DEF IsRun
      <3>2. PICK j \in i .. z : j >= a \/ InClip(C, j)
        BY <3>1 DEF RunsKept
      <3> HIDE DEF z
      <3>3. CASE e = a
        BY <3>2, <3>3 DEF z
      <3>4. CASE a = m + 1
        <4>1. ~(j >= a)
          BY <2>1, <2>3, <3>2, <3>4
        <4> QED
          BY <3>2, <4>1 DEF z
      <3> QED
        BY <3>3, <3>4
    <2> QED
      BY <2>2, <2>3
  <1> QED
    BY <1>1 DEF RunsKept

\* Without a clip found, the clips stay as they were.
LEMMA NothingFound ==
    \A C, f : C \cup ClipsFrom(f, {}) = C
  <1>1. \A f : ClipsFrom(f, {}) = {}
    BY DEF ClipsFrom
  <1> QED
    BY <1>1

\* One frame through the squelch.
LEMMA SquelchStep ==
    ASSUME NEW d, NEW C, NEW f, NEW m, NEW V, SquelchIsRight(d, C, f, m, V, TRUE)
    PROVE  LET b     == Heard(d, m + 1, m + 1 \in V)
               ends  == Ends(d, b)
               found == IF ends THEN ClipsOf(b) ELSE {}
           IN  SquelchIsRight(IF ends THEN Finished(b) ELSE b,
                              C \cup ClipsFrom(f, found), f, m + 1, V, TRUE)
  <1> DEFINE b == Heard(d, m + 1, m + 1 \in V)
             ends == Ends(d, b)
             found == IF ends THEN ClipsOf(b) ELSE {}
             after == IF ends THEN Finished(b) ELSE b
             D == C \cup ClipsFrom(f, found)
  <1>1. /\ d \in Detectors /\ Len(d.preRoll) <= PreRoll
        /\ f \in Nat \ {0} /\ m \in Nat /\ m + 1 >= f
        /\ ClipsAreRight(C, V)
    BY DEF SquelchIsRight
  <1>2. PICK a \in Nat : BurstBegins(d, C, f, a, m, V, TRUE)
    BY DEF SquelchIsRight
  <1>3. /\ a \in f .. m + 1
        /\ \A c \in C : c.last < a
        /\ a > f /\ a - 1 \in V => InClip(C, a - 1)
        /\ RunsKept(C, f, a, m, V)
    BY <1>2 DEF BurstBegins
  <1>4. \A c \in C : c.last \in Int
    BY <1>1 DEF ClipsAreRight, ClipIsRight
  <1>5. m + 1 \in Nat \ {0} /\ m + 2 \in Nat /\ (m + 1) + 1 = m + 2 /\ (m + 2) - 1 = m + 1
    BY <1>1
  <1>6. CASE ~d.open
    <2>1. a = m + 1 /\ ~ends
      BY <1>2, <1>6 DEF BurstBegins, Ends
    <2>2. found = {} /\ after = b /\ D = C
      BY <2>1, NothingFound
    <2>3. CASE m + 1 \notin V
      <3>1. b = Heard(d, m + 1, FALSE)
        <4>1. (m + 1 \in V) = FALSE
          BY <2>3
        <4> QED
          BY <4>1
      <3>2. b \in Detectors /\ ~b.open /\ Len(b.preRoll) <= PreRoll
        BY <1>1, <1>5, <1>6, <3>1, QuietStays
      <3>3. RunsKept(C, f, m + 2, m + 1, V)
        BY <1>1, <1>3, <2>1, <2>3, RunsGoOn
      <3>4. \A c \in C : c.last < m + 2
        BY <1>1, <1>3, <1>4, <2>1
      <3> HIDE DEF b
      <3>5. BurstBegins(b, C, f, m + 2, m + 1, V, TRUE)
        BY <1>1, <1>5, <2>3, <3>2, <3>3, <3>4 DEF BurstBegins
      <3>6. (m + 1) + 1 >= f
        BY <1>1
      <3> HIDE DEF after, D, ends, found
      <3>7. SquelchIsRight(after, D, f, m + 1, V, TRUE)
        BY <1>1, <1>5, <2>2, <3>2, <3>5, <3>6 DEF SquelchIsRight
      <3> QED
        BY <3>7 DEF after, D, ends, found, b
    <2>4. CASE m + 1 \in V
      <3>1. b = Heard(d, m + 1, TRUE)
        BY <2>4
      <3>2. b \in Detectors /\ b.preRoll = d.preRoll
            /\ Burst(b, m + 1, m + 1, V) /\ GoesOn(b, m + 1, m + 1)
            /\ NoPause(m + 1, m + 1, V)
        BY <1>1, <1>5, <1>6, <2>4, <3>1, LoudOpens
      <3>3. RunsKept(C, f, m + 1, m + 1, V)
        BY <1>1, <1>3, <2>1, RunsGoOn
      <3> HIDE DEF b
      <3>4. b.open
        BY <3>2 DEF Burst
      <3>5. m + 1 \in f .. (m + 1) + 1
        BY <1>1
      <3>6. BurstBegins(b, C, f, m + 1, m + 1, V, TRUE)
        BY <1>3, <2>1, <3>2, <3>3, <3>4, <3>5 DEF BurstBegins
      <3>7. (m + 1) + 1 >= f
        BY <1>1
      <3> HIDE DEF after, D, ends, found
      <3>8. SquelchIsRight(after, D, f, m + 1, V, TRUE)
        BY <1>1, <1>2, <1>5, <2>1, <2>2, <3>2, <3>6, <3>7 DEF SquelchIsRight
      <3> QED
        BY <3>8 DEF after, D, ends, found, b
    <2> QED
      BY <2>3, <2>4
  <1>7. CASE d.open
    <2>1. Burst(d, a, m, V) /\ GoesOn(d, a, m) /\ NoPause(a, m, V)
      BY <1>2, <1>7 DEF BurstBegins
    <2>2. /\ b \in Detectors /\ b.preRoll = d.preRoll
          /\ Burst(b, a, m + 1, V)
          /\ b.quiet = IF m + 1 \in V THEN 0 ELSE d.quiet + 1
      BY <1>1, <2>1, BurstGrows
    <2>3. /\ ~ends => GoesOn(b, a, m + 1)
          /\ ends /\ m + 1 \in V => (m + 1) - a + 1 >= MinClip
          /\ (m + 1) - a + 1 <= MaxClip
      BY <1>1, <2>1, BurstEnds
    <2>4. RunsKept(C, f, a, m + 1, V)
      BY <1>1, <1>3, RunsGoOn
    <2>5. a \in f .. (m + 1) + 1 /\ (m + 1) + 1 >= f
      BY <1>1, <1>3
    <2>6. CASE ~ends
      <3>1. found = {} /\ after = b /\ D = C
        BY <2>6, NothingFound
      <3>2. NoPause(a, m + 1, V)
        BY <1>1, <2>1, <2>3, <2>6, PauseIsShort
      <3>3. b.open /\ GoesOn(b, a, m + 1)
        BY <2>2, <2>3, <2>6 DEF Burst
      <3> HIDE DEF b, ends
      <3>4. BurstBegins(b, C, f, a, m + 1, V, TRUE)
        BY <1>3, <2>2, <2>4, <2>5, <3>2, <3>3 DEF BurstBegins
      <3> HIDE DEF after, D, found
      <3>5. SquelchIsRight(after, D, f, m + 1, V, TRUE)
        BY <1>1, <1>2, <1>5, <2>2, <2>5, <3>1, <3>4 DEF SquelchIsRight
      <3> QED
        BY <3>5 DEF after, D, ends, found, b
    <2>7. CASE ends
      <3>1. found = ClipsOf(b) /\ after = Finished(b)
        BY <2>7
      <3> HIDE DEF b, ends, found, after
      <3>2. b.quiet \in Nat /\ a \in V /\ a \in Nat
        BY <2>2, <1>2 DEF Detectors, Burst
      <3>3. m \in Nat /\ m + 1 >= m + 1
        BY <1>1
      <3>4. a >= f
        BY <1>1, <1>3
      <3>5. /\ ClipsAreRight(D, V)
            /\ \A c \in D : c.last < (m + 1) + 1
            /\ (m + 1) - b.quiet - a + 1 >= MinClip =>
                  \A i \in a .. (m + 1) - b.quiet : InClip(D, i)
        <4>1. b \in Detectors /\ Burst(b, a, m + 1, V) /\ (m + 1) - a + 1 <= MaxClip
          BY <2>2, <2>3
        <4>2. NoPause(a, m, V) /\ f \in Nat \ {0} /\ ClipsAreRight(C, V)
          BY <1>1, <2>1
        <4>3. D = C \cup ClipsFrom(f, ClipsOf(b))
          BY <3>1
        <4> HIDE DEF D
        <4> QED
          BY <1>3, <3>3, <3>4, <4>1, <4>2, <4>3, ClipsGrow
      <3>6. RunsKept(D, f, (m + 1) + 1, m + 1, V)
        BY <1>1, <1>3, <2>2, <2>4, <3>4, <3>5, RunsStayKept
      <3>7. after \in Detectors /\ ~after.open /\ Len(after.preRoll) <= PreRoll
        BY <1>1, <2>2, <3>1, FinishedIsSilent
      <3>8. m + 1 \in V => InClip(D, m + 1)
        <4>1. ASSUME m + 1 \in V PROVE m + 1 \in a .. (m + 1) - b.quiet
                                       /\ (m + 1) - b.quiet - a + 1 >= MinClip
          <5>1. b.quiet = 0
            BY <2>2, <4>1
          <5>2. a <= m + 1
            BY <2>2 DEF Burst
          <5> QED
            BY <1>1, <2>3, <2>7, <3>2, <4>1, <5>1, <5>2
        <4> QED
          BY <3>5, <4>1
      <3> HIDE DEF D
      <3>9. m + 2 \in f .. (m + 1) + 1
        BY <1>1
      <3>10. BurstBegins(after, D, f, m + 2, m + 1, V, TRUE)
        BY <1>5, <3>5, <3>6, <3>7, <3>8, <3>9 DEF BurstBegins
      <3>11. SquelchIsRight(after, D, f, m + 1, V, TRUE)
        BY <1>1, <1>5, <2>5, <3>5, <3>7, <3>10 DEF SquelchIsRight
      <3> QED
        BY <3>11 DEF after, D, ends, found, b
    <2> QED
      BY <2>6, <2>7
  <1> QED
    BY <1>6, <1>7

\* The end of the stream: an open burst is ended, and nothing comes after it.
LEMMA SquelchEnds ==
    ASSUME NEW d, NEW C, NEW f, NEW m, NEW V, SquelchIsRight(d, C, f, m, V, TRUE)
    PROVE  LET found == IF d.open THEN ClipsOf(d) ELSE {}
           IN  SquelchIsRight(IF d.open THEN Finished(d) ELSE d,
                              C \cup ClipsFrom(f, found), f, m, V, FALSE)
  <1> DEFINE found == IF d.open THEN ClipsOf(d) ELSE {}
             after == IF d.open THEN Finished(d) ELSE d
             D == C \cup ClipsFrom(f, found)
  <1>1. /\ d \in Detectors /\ Len(d.preRoll) <= PreRoll
        /\ f \in Nat \ {0} /\ m \in Nat /\ m + 1 >= f
        /\ ClipsAreRight(C, V)
    BY DEF SquelchIsRight
  <1>2. PICK a \in Nat : BurstBegins(d, C, f, a, m, V, TRUE)
    BY DEF SquelchIsRight
  <1>3. /\ a \in f .. m + 1
        /\ \A c \in C : c.last < a
        /\ a > f /\ a - 1 \in V => InClip(C, a - 1)
        /\ RunsKept(C, f, a, m, V)
    BY <1>2 DEF BurstBegins
  <1>4. CASE ~d.open
    <2>1. found = {} /\ after = d /\ D = C
      BY <1>4, NothingFound
    <2>2. BurstBegins(d, C, f, a, m, V, FALSE)
      BY <1>2, <1>4 DEF BurstBegins
    <2> HIDE DEF after, D, found
    <2>3. SquelchIsRight(after, D, f, m, V, FALSE)
      BY <1>1, <1>2, <2>1, <2>2 DEF SquelchIsRight
    <2> QED
      BY <2>3 DEF after, D, found
  <1>5. CASE d.open
    <2>1. Burst(d, a, m, V) /\ GoesOn(d, a, m) /\ NoPause(a, m, V)
      BY <1>2, <1>5 DEF BurstBegins
    <2>2. found = ClipsOf(d) /\ after = Finished(d)
      BY <1>5
    <2> HIDE DEF found, after
    <2>3. /\ d.quiet \in Nat /\ a \in Nat \ {0} /\ a >= f /\ a <= m
          /\ Len(d.frames) \in Nat /\ Len(d.frames) - (m - a + 1) \in 0 .. PreRoll
      BY <1>1, <1>2, <1>3, <2>1 DEF Detectors, Burst
    <2>4. m - a + 1 <= MaxClip
      <3>1. CASE m = a
        BY <1>1, <2>3, <3>1, DetectorAssumption
      <3>2. CASE m > a
        <4>1. Len(d.frames) < MaxClip
          BY <2>1, <3>2 DEF GoesOn
        <4> QED
          BY <1>1, <2>3, <4>1, DetectorAssumption
      <3> QED
        BY <1>1, <2>3, <3>1, <3>2
    <2>5. m \in Nat /\ m + 1 >= m
      BY <1>1
    <2>6. /\ ClipsAreRight(D, V)
          /\ \A c \in D : c.last < m + 1
          /\ m - d.quiet - a + 1 >= MinClip => \A i \in a .. m - d.quiet : InClip(D, i)
      <3>1. d \in Detectors /\ Burst(d, a, m, V) /\ m - a + 1 <= MaxClip
        BY <1>1, <2>1, <2>4
      <3>2. NoPause(a, m, V) /\ f \in Nat \ {0} /\ ClipsAreRight(C, V) /\ a >= f
        BY <1>1, <2>1, <2>3
      <3>3. D = C \cup ClipsFrom(f, ClipsOf(d))
        BY <2>2
      <3>4. \A c \in C : c.last < a
        BY <1>3
      <3> HIDE DEF D
      <3> QED
        BY <2>5, <3>1, <3>2, <3>3, <3>4, ClipsGrow
    <2>7. RunsKept(D, f, m + 1, m, V)
      BY <1>1, <1>3, <2>1, <2>3, <2>6, RunsStayKept
    <2>8. after \in Detectors /\ ~after.open /\ Len(after.preRoll) <= PreRoll
      BY <1>1, <2>2, FinishedIsSilent
    <2> HIDE DEF D
    <2>9. BurstBegins(after, D, f, m + 1, m, V, FALSE)
      <3>1. m + 1 \in f .. m + 1
        BY <1>1
      <3> QED
        BY <2>6, <2>7, <2>8, <3>1 DEF BurstBegins
    <2>10. SquelchIsRight(after, D, f, m, V, FALSE)
      <3>1. m + 1 \in Nat
        BY <1>1
      <3> QED
        BY <1>1, <2>6, <2>8, <2>9, <3>1 DEF SquelchIsRight
    <2> QED
      BY <2>10 DEF after, D, found
  <1> QED
    BY <1>4, <1>5

\* Only the frames up to m matter.
LEMMA SquelchHears ==
    ASSUME NEW d, NEW C, NEW f, NEW m, NEW V, NEW W, NEW g, SquelchIsRight(d, C, f, m, V, g),
           \A i \in 1 .. m : i \in V <=> i \in W
    PROVE  SquelchIsRight(d, C, f, m, W, g)
  <1>1. /\ d \in Detectors /\ Len(d.preRoll) <= PreRoll
        /\ f \in Nat \ {0} /\ m \in Nat /\ m + 1 >= f
        /\ ClipsAreRight(C, V)
    BY DEF SquelchIsRight
  <1>2. PICK a \in Nat : BurstBegins(d, C, f, a, m, V, g)
    BY DEF SquelchIsRight
  <1>3. a \in f .. m + 1 /\ a \in Nat \ {0} /\ \A c \in C : c.last < a
    BY <1>1, <1>2 DEF BurstBegins
  <1>4. ASSUME NEW c \in C PROVE ClipIsRight(c, W)
    <2>1. ClipIsRight(c, V)
      BY <1>1 DEF ClipsAreRight
    <2>2. /\ c.from \in Nat \ {0} /\ c.first \in Nat /\ c.length \in Nat /\ c.from <= c.first
          /\ c.last = c.first + c.length - 1 /\ c.first \in V /\ c.last \in V
          /\ c.length \in MinClip .. MaxClip
      BY <2>1 DEF ClipIsRight
    <2>3. c.first \in 1 .. m /\ c.last \in 1 .. m
      <3>1. c.last < a
        BY <1>3
      <3> QED
        BY <1>1, <1>3, <2>2, <3>1, DetectorAssumption
    <2>4. ASSUME PostRoll > 0, NEW i \in c.first .. c.last - PostRoll
          PROVE  \E j \in i .. i + PostRoll - 1 : j \in W
      <3>1. PICK j \in i .. i + PostRoll - 1 : j \in V
        BY <2>1, <2>4 DEF ClipIsRight
      <3>2. j \in 1 .. m
        BY <1>1, <2>2, <2>3, <2>4, DetectorAssumption
      <3> QED
        BY <3>1, <3>2
    <2> QED
      BY <2>2, <2>3, <2>4 DEF ClipIsRight
  <1>5. ClipsAreRight(C, W)
    BY <1>1, <1>4 DEF ClipsAreRight
  <1>6. RunsKept(C, f, a, m, W)
    <2>1. ASSUME NEW i \in Nat, IsRun(i, f, m, W) PROVE IsRun(i, f, m, V)
      <3>1. i \in f .. m /\ i + MinClip - 1 <= m /\ i .. i + MinClip - 1 \subseteq W
        BY <2>1 DEF IsRun
      <3>2. \A j \in i .. i + MinClip - 1 : j \in 1 .. m
        BY <1>1, <3>1, DetectorAssumption
      <3> QED
        BY <3>1, <3>2 DEF IsRun
    <2>2. RunsKept(C, f, a, m, V)
      BY <1>2 DEF BurstBegins
    <2> QED
      BY <2>1, <2>2 DEF RunsKept
  <1>7. g /\ a > f /\ a - 1 \in W => InClip(C, a - 1)
    <2>1. a > f => a - 1 \in 1 .. m
      BY <1>1, <1>3
    <2> QED
      BY <1>2, <2>1 DEF BurstBegins
  <1>8. ASSUME Burst(d, a, m, V) /\ GoesOn(d, a, m) /\ NoPause(a, m, V)
        PROVE  Burst(d, a, m, W) /\ NoPause(a, m, W)
    <2>1. \A i \in a .. m : i \in 1 .. m
      BY <1>1, <1>3
    <2>2. /\ d.open /\ a \in Nat \ {0} /\ m \in Nat /\ a <= m
          /\ Len(d.frames) - (m - a + 1) \in 0 .. PreRoll
          /\ \A p \in 1 .. Len(d.frames) - (m - a + 1) : ~d.frames[p].live
          /\ d.quiet \in 0 .. m - a /\ m - d.quiet \in V /\ a \in V
          /\ \A i \in m - d.quiet + 1 .. m : i \notin V
      BY <1>8 DEF Burst
    <2>3. ASSUME NEW i \in a .. m
          PROVE  d.frames[Len(d.frames) - (m - i)] = [at |-> i, live |-> i \in W]
      <3>1. d.frames[Len(d.frames) - (m - i)] = [at |-> i, live |-> i \in V]
        BY <1>8, <2>3 DEF Burst
      <3>2. (i \in V) = (i \in W)
        BY <2>1
      <3> QED
        BY <3>1, <3>2
    <2>4. a \in W /\ m - d.quiet \in W
      <3>1. m - d.quiet \in a .. m /\ a \in a .. m
        BY <2>2
      <3> QED
        BY <2>1, <2>2, <3>1
    <2>5. \A i \in m - d.quiet + 1 .. m : i \notin W
      <3>1. \A i \in m - d.quiet + 1 .. m : i \in a .. m
        BY <2>2
      <3> QED
        BY <2>1, <2>2, <3>1
    <2>6. NoPause(a, m, W)
      <3>1. ASSUME PostRoll > 0, NEW i \in a .. m + 1 - PostRoll
            PROVE  \E j \in i .. i + PostRoll - 1 : j \in W
        <4>1. PICK j \in i .. i + PostRoll - 1 : j \in V
          BY <1>8, <3>1 DEF NoPause
        <4>2. j \in 1 .. m
          BY <2>2, <3>1, DetectorAssumption
        <4> QED
          BY <4>1, <4>2
      <3> QED
        BY <3>1 DEF NoPause
    <2>7. Burst(d, a, m, W)
      BY <2>2, <2>3, <2>4, <2>5 DEF Burst
    <2> QED
      BY <2>6, <2>7
  <1>9. BurstBegins(d, C, f, a, m, W, g)
    BY <1>2, <1>6, <1>7, <1>8 DEF BurstBegins
  <1> QED
    BY <1>1, <1>2, <1>5, <1>9 DEF SquelchIsRight

\* The clips end with the frames heard, so before the next process begins.
LEMMA ClipsAreOver ==
    ASSUME NEW d, NEW C, NEW f, NEW m, NEW V, NEW g, SquelchIsRight(d, C, f, m, V, g),
           NEW n \in Nat, m <= n
    PROVE  ClipsAreRight(C, V) /\ \A c \in C : c.last < n + 1
  <1>1. f \in Nat \ {0} /\ m \in Nat /\ ClipsAreRight(C, V)
    BY DEF SquelchIsRight
  <1>2. PICK a \in Nat : BurstBegins(d, C, f, a, m, V, g)
    BY DEF SquelchIsRight
  <1>3. \A c \in C : c.last < n + 1
    <2> TAKE c \in C
    <2>1. c.last < a /\ c.last \in Int /\ a <= m + 1
      BY <1>1, <1>2 DEF BurstBegins, ClipsAreRight, ClipIsRight
    <2> QED
      BY <1>1, <2>1
  <1> QED
    BY <1>1, <1>3

\* A new process begins with an empty squelch; the clips of those before it stay.
LEMMA SquelchBegins ==
    ASSUME NEW n \in Nat, NEW V, NEW C, ClipsAreRight(C, V), \A c \in C : c.last < n + 1
    PROVE  SquelchIsRight(Silent, C, n + 1, n, V, TRUE)
  <1>1. Silent \in Detectors /\ ~Silent.open /\ Len(Silent.preRoll) <= PreRoll
    <2> DEFINE none == <<>>
    <2>1. none \in Seq(Nat) /\ none \in Seq(Frames) /\ Len(none) = 0
      BY EmptyIs
    <2>2. Silent = [open |-> FALSE, frames |-> none, quiet |-> 0, preRoll |-> none]
      BY DEF Silent
    <2> HIDE DEF none
    <2> QED
      BY <2>1, <2>2, DetectorAssumption DEF Detectors
  <1>2. RunsKept(C, n + 1, n + 1, n, V)
    <2>1. \A i \in Nat : ~IsRun(i, n + 1, n, V)
      BY DEF IsRun
    <2> QED
      BY <2>1 DEF RunsKept
  <1>3. n + 1 \in Nat \ {0} /\ n + 1 \in n + 1 .. n + 1 /\ ~(n + 1 > n + 1)
        /\ n + 1 >= n + 1
    OBVIOUS
  <1>4. BurstBegins(Silent, C, n + 1, n + 1, n, V, TRUE)
    BY <1>1, <1>2, <1>3 DEF BurstBegins
  <1> QED
    BY <1>1, <1>3, <1>4 DEF SquelchIsRight

\* What holds while the stream goes on holds when it stops.
LEMMA SquelchStops ==
    ASSUME NEW d, NEW C, NEW f, NEW m, NEW V, SquelchIsRight(d, C, f, m, V, TRUE)
    PROVE  SquelchIsRight(d, C, f, m, V, FALSE)
  BY DEF SquelchIsRight, BurstBegins

\* What it says of the clips, and of speech of at least MinClip frames.
LEMMA SquelchKeepsSpeech ==
    ASSUME NEW d, NEW C, NEW f, NEW m, NEW V, NEW g, SquelchIsRight(d, C, f, m, V, g),
           NEW i \in Nat, IsRun(i, f, m, V)
    PROVE  \E j \in i .. i + MinClip - 1 :
              InClip(C, j) \/ \E p \in DOMAIN d.frames : d.frames[p].at = j
  <1>1. PICK a \in Nat : BurstBegins(d, C, f, a, m, V, g)
    BY DEF SquelchIsRight
  <1>2. PICK j \in i .. i + MinClip - 1 : j >= a \/ InClip(C, j)
    BY <1>1 DEF BurstBegins, RunsKept
  <1>3. /\ d \in Detectors /\ m \in Nat /\ j <= m /\ j \in Nat
    BY DetectorAssumption DEF SquelchIsRight, IsRun
  <1>4. CASE j >= a
    <2>1. d.open
      BY <1>1, <1>3, <1>4 DEF BurstBegins
    <2>2. Burst(d, a, m, V)
      BY <1>1, <2>1 DEF BurstBegins
    <2> DEFINE n == Len(d.frames)
               p == n - (m - j)
    <2>3. d.frames[p] = [at |-> j, live |-> j \in V]
      BY <1>3, <1>4, <2>2 DEF Burst
    <2>4. n \in Nat /\ DOMAIN d.frames = 1 .. n /\ a \in Nat \ {0} /\ a <= m
          /\ n - (m - a + 1) \in 0 .. PreRoll
      BY <1>3, <2>2 DEF Burst, Detectors
    <2> HIDE DEF n
    <2>5. p \in 1 .. n
      BY <1>3, <1>4, <2>4, DetectorAssumption
    <2> HIDE DEF p
    <2> QED
      BY <2>3, <2>4, <2>5
  <1> QED
    BY <1>2, <1>4

-----------------------------------------------------------------------------
(* The squelch of the live feed.  T is the set of the static frames.        *)

Rendered == [at : Nat, audible : BOOLEAN]

\* Frame i is heard by the speech of frame j.
HeardBy(j, i, V, T) == j \in V /\ \A k \in j .. i : k \notin T

OpenedIn(i, f, V, T) == \E j \in f .. i : HeardBy(j, i, V, T) /\ i - j <= PostRoll

IsFrame(r, i, f, V, T) == r.at = i /\ (r.audible <=> OpenedIn(i, f, V, T))

\* After frame m, the frames that may still be heard.
HangIs(h, f, m, V, T) ==
    /\ h \in Nat /\ h <= PostRoll
    /\ \A j \in f .. m : HeardBy(j, m, V, T) => h >= PostRoll - (m - j)
    /\ h > 0 => \E j \in f .. m : HeardBy(j, m, V, T) /\ m - j = PostRoll - h

FeedIsRight(l, P, f, m, V, T) ==
    /\ l \in [hang : Nat, delayed : Seq(Rendered)] /\ P \in Seq(Rendered)
    /\ f \in Nat \ {0} /\ m \in Nat
    /\ Len(P) + Len(l.delayed) = m - f + 1
    /\ \A p \in 1 .. Len(P) : IsFrame(P[p], f + p - 1, f, V, T)
    /\ \A p \in 1 .. Len(l.delayed) : IsFrame(l.delayed[p], f + Len(P) + p - 1, f, V, T)

\* Between the frames the feed is Lookahead frames late, unless it has less of them.
IsLate(l, P) ==
    Len(l.delayed) = IF Len(P) + Len(l.delayed) < Lookahead
                     THEN Len(P) + Len(l.delayed) ELSE Lookahead

\* How far the feed has come.
LEMMA FeedReaches ==
    ASSUME NEW l, NEW P, NEW f, NEW m, NEW V, NEW T, FeedIsRight(l, P, f, m, V, T)
    PROVE  /\ f + Len(P) + Len(l.delayed) - 1 = m
           /\ Len(P) + Len(l.delayed) = m - f + 1
           /\ Len(P) \in Nat /\ Len(l.delayed) \in Nat
  <1>1. Len(P) \in Nat /\ Len(l.delayed) \in Nat
    BY DEF FeedIsRight
  <1>2. f \in Nat /\ m \in Nat /\ Len(P) + Len(l.delayed) = m - f + 1
    BY DEF FeedIsRight
  <1> DEFINE n == Len(P)
             k == Len(l.delayed)
  <1>3. n \in Nat /\ k \in Nat /\ n + k = m - f + 1
    BY <1>1, <1>2
  <1> HIDE DEF n, k
  <1>4. f + n + k - 1 = m
    BY <1>2, <1>3
  <1> QED
    BY <1>1, <1>2, <1>4 DEF n, k

\* A frame is rendered as it should be heard, and the hang counts on.
LEMMA FrameIsRendered ==
    ASSUME NEW l, NEW f \in Nat \ {0}, NEW m \in Nat, m + 1 >= f, NEW V, NEW T,
           HangIs(l.hang, f, m, V, T), l.delayed \in Seq(Rendered),
           NEW kind \in Kinds, m + 1 \in V <=> kind = "voice", m + 1 \in T <=> kind = "static"
    PROVE  LET r == AppendRendered(l, m + 1, kind)
           IN  /\ HangIs(r.hang, f, m + 1, V, T)
               /\ Audible(l, kind) <=> OpenedIn(m + 1, f, V, T)
  <1> DEFINE h == l.hang
             g == CASE kind = "static" -> 0
                    [] kind = "voice"  -> PostRoll
                    [] OTHER           -> IF l.hang > 0 THEN l.hang - 1 ELSE 0
             r == AppendRendered(l, m + 1, kind)
  <1>1. r.hang = g
    BY DEF AppendRendered
  <1>2. /\ h \in Nat /\ h <= PostRoll /\ PostRoll \in Nat
        /\ \A j \in f .. m : HeardBy(j, m, V, T) => h >= PostRoll - (m - j)
        /\ h > 0 => \E j \in f .. m : HeardBy(j, m, V, T) /\ m - j = PostRoll - h
    BY DetectorAssumption DEF HangIs
  <1>3. kind = "static" \/ kind = "voice" \/ kind = "quiet"
    BY DEF Kinds
  <1> HIDE DEF h, r
  <1>4. CASE kind = "static"
    <2>1. \A j \in f .. m + 1 : ~HeardBy(j, m + 1, V, T)
      <3>1. m + 1 \in T /\ \A j \in f .. m + 1 : m + 1 \in j .. m + 1
        BY <1>4
      <3> QED
        BY <3>1 DEF HeardBy
    <2>2. g = 0 /\ ~Audible(l, kind)
      BY <1>4 DEF Audible
    <2>3. ~OpenedIn(m + 1, f, V, T)
      BY <2>1 DEF OpenedIn
    <2>4. HangIs(0, f, m + 1, V, T)
      BY <1>2, <2>1 DEF HangIs
    <2> HIDE DEF g
    <2> QED
      BY <1>1, <2>2, <2>3, <2>4 DEF r
  <1>5. CASE kind = "voice"
    <2>1. g = PostRoll /\ Audible(l, kind)
      BY <1>5 DEF Audible
    <2>2. HeardBy(m + 1, m + 1, V, T)
      <3>1. \A k \in m + 1 .. m + 1 : k = m + 1
        OBVIOUS
      <3>2. m + 1 \in V /\ m + 1 \notin T
        BY <1>5
      <3> QED
        BY <3>1, <3>2 DEF HeardBy
    <2>3. m + 1 \in f .. m + 1 /\ (m + 1) - (m + 1) = 0 /\ PostRoll - PostRoll = 0
      BY <1>2
    <2>4. OpenedIn(m + 1, f, V, T)
      BY <1>2, <2>2, <2>3 DEF OpenedIn
    <2>5. HangIs(PostRoll, f, m + 1, V, T)
      <3>1. \A j \in f .. m + 1 : PostRoll >= PostRoll - ((m + 1) - j)
        BY <1>2
      <3> QED
        BY <1>2, <2>2, <2>3, <3>1 DEF HangIs
    <2> HIDE DEF g
    <2> QED
      BY <1>1, <2>1, <2>4, <2>5 DEF r
  <1>6. CASE kind = "quiet"
    <2>1. g = (IF h > 0 THEN h - 1 ELSE 0) /\ (Audible(l, kind) <=> h > 0)
      BY <1>6 DEF Audible, h
    <2> HIDE DEF g
    <2>2. m + 1 \notin V /\ m + 1 \notin T
      BY <1>6
    <2>3. \A j \in f .. m + 1 : HeardBy(j, m + 1, V, T) <=> j \in f .. m /\ HeardBy(j, m, V, T)
      <3> TAKE j \in f .. m + 1
      <3>1. CASE j = m + 1
        BY <2>2, <3>1 DEF HeardBy
      <3>2. CASE j # m + 1
        <4>1. j \in f .. m /\ \A k : k \in j .. m + 1 <=> k = m + 1 \/ k \in j .. m
          BY <3>2
        <4> QED
          BY <2>2, <4>1 DEF HeardBy
      <3> QED
        BY <3>1, <3>2
    <2>4. OpenedIn(m + 1, f, V, T) <=> h > 0
      <3>1. ASSUME h > 0 PROVE OpenedIn(m + 1, f, V, T)
        <4>1. PICK j \in f .. m : HeardBy(j, m, V, T) /\ m - j = PostRoll - h
          BY <1>2, <3>1
        <4>2. j \in f .. m + 1 /\ (m + 1) - j <= PostRoll
          BY <1>2, <3>1, <4>1
        <4> QED
          BY <2>3, <4>1, <4>2 DEF OpenedIn
      <3>2. ASSUME OpenedIn(m + 1, f, V, T) PROVE h > 0
        <4>1. PICK j \in f .. m + 1 : HeardBy(j, m + 1, V, T) /\ (m + 1) - j <= PostRoll
          BY <3>2 DEF OpenedIn
        <4>2. j \in f .. m /\ HeardBy(j, m, V, T)
          BY <2>3, <4>1
        <4>3. h >= PostRoll - (m - j)
          BY <1>2, <4>2
        <4> QED
          BY <1>2, <4>1, <4>2, <4>3
      <3> QED
        BY <3>1, <3>2
    <2>5. HangIs(g, f, m + 1, V, T)
      <3>1. g \in Nat /\ g <= PostRoll
        BY <1>2, <2>1
      <3>2. ASSUME NEW j \in f .. m + 1, HeardBy(j, m + 1, V, T)
            PROVE  g >= PostRoll - ((m + 1) - j)
        <4>1. j \in f .. m /\ HeardBy(j, m, V, T)
          BY <2>3, <3>2
        <4>2. h >= PostRoll - (m - j)
          BY <1>2, <4>1
        <4> QED
          BY <1>2, <2>1, <4>1, <4>2
      <3>3. ASSUME g > 0
            PROVE  \E j \in f .. m + 1 : HeardBy(j, m + 1, V, T) /\ (m + 1) - j = PostRoll - g
        <4>1. h > 0 /\ g = h - 1
          BY <1>2, <2>1, <3>3
        <4>2. PICK j \in f .. m : HeardBy(j, m, V, T) /\ m - j = PostRoll - h
          BY <1>2, <4>1
        <4>3. j \in f .. m + 1 /\ (m + 1) - j = PostRoll - g
          BY <1>2, <4>1, <4>2
        <4> QED
          BY <2>3, <4>2, <4>3
      <3> QED
        BY <3>1, <3>2, <3>3 DEF HangIs
    <2> QED
      BY <1>1, <2>1, <2>4, <2>5 DEF r
  <1> QED
    BY <1>3, <1>4, <1>5, <1>6

\* What is written leaves the rest delayed.
LEMMA FeedIsDrained ==
    ASSUME NEW l, NEW P, NEW f, NEW m, NEW V, NEW T, FeedIsRight(l, P, f, m, V, T),
           NEW keep \in Nat
    PROVE  /\ FeedIsRight(Drained(l, keep), P \o Ready(l, keep), f, m, V, T)
           /\ Drained(l, keep).hang = l.hang
           /\ Len(Drained(l, keep).delayed) =
                 IF Len(l.delayed) > keep THEN keep ELSE Len(l.delayed)
  <1> DEFINE s == l.delayed
             n == Len(s)
             w == IF n > keep THEN n - keep ELSE 0
             R == Ready(l, keep)
             rest == Drained(l, keep)
             Q == P \o R
  <1>1. /\ l \in [hang : Nat, delayed : Seq(Rendered)] /\ P \in Seq(Rendered)
        /\ f \in Nat \ {0} /\ m \in Nat
        /\ Len(P) + n = m - f + 1
        /\ \A p \in 1 .. Len(P) : IsFrame(P[p], f + p - 1, f, V, T)
        /\ \A p \in 1 .. n : IsFrame(s[p], f + Len(P) + p - 1, f, V, T)
    BY DEF FeedIsRight
  <1>2. s \in Seq(Rendered) /\ n \in Nat /\ w \in 0 .. n /\ n - w = IF n > keep THEN keep ELSE n
    BY <1>1
  <1>3. \A p \in 1 .. n : s[p] \in Rendered
    BY <1>1
  <1> HIDE DEF n
  <1>4. /\ R \in Seq(Rendered) /\ Len(R) = w /\ \A p \in 1 .. w : R[p] = s[p]
    <2>1. CASE n > keep
      <3>1. R = SubSeq(s, 1, n - keep) /\ w = n - keep
        BY <2>1 DEF Ready, n
      <3>2. 1 \in Int /\ n - keep \in Int /\ \A p \in 1 .. n - keep : s[p] \in Rendered
        BY <1>2, <1>3
      <3>3. /\ SubSeq(s, 1, n - keep) \in Seq(Rendered)
            /\ Len(SubSeq(s, 1, n - keep)) = IF 1 <= n - keep THEN n - keep - 1 + 1 ELSE 0
            /\ \A p \in 1 .. n - keep - 1 + 1 : SubSeq(s, 1, n - keep)[p] = s[1 + p - 1]
        BY <3>2, SubSeqProperties
      <3> HIDE DEF w, s
      <3>4. \A p \in 1 .. w : p \in 1 .. n - keep - 1 + 1 /\ 1 + p - 1 = p
        BY <1>2, <3>1
      <3> QED
        BY <1>2, <2>1, <3>1, <3>3, <3>4
    <2>2. CASE ~(n > keep)
      <3> DEFINE none == <<>>
      <3>1. none \in Seq(Rendered) /\ Len(none) = 0
        BY EmptyIs
      <3>2. R = none /\ w = 0
        BY <2>2 DEF Ready, n
      <3> HIDE DEF none
      <3> QED
        BY <3>1, <3>2
    <2> QED
      BY <2>1, <2>2
  <1> DEFINE t == SubSeq(s, w + 1, n)
  <1>5. rest = [hang |-> l.hang, delayed |-> t]
    <2>1. Len(Ready(l, keep)) = w
      BY <1>4
    <2>2. Drained(l, keep) = [l EXCEPT !.delayed = SubSeq(s, w + 1, n)]
      BY <2>1 DEF Drained, n
    <2> HIDE DEF w, s
    <2> QED
      BY <1>1, <2>2 DEF s
  <1>6. t \in Seq(Rendered) /\ Len(t) = n - w /\ \A p \in 1 .. n - w : t[p] = s[w + p]
    <2> HIDE DEF w, s
    <2>1. w + 1 \in Int /\ n \in Int /\ \A p \in w + 1 .. n : s[p] \in Rendered
      BY <1>2, <1>3
    <2>2. /\ t \in Seq(Rendered)
          /\ Len(t) = IF w + 1 <= n THEN n - (w + 1) + 1 ELSE 0
          /\ \A p \in 1 .. n - (w + 1) + 1 : t[p] = s[w + 1 + p - 1]
      BY <2>1, SubSeqProperties
    <2> HIDE DEF t
    <2>3. \A p \in 1 .. n - w : p \in 1 .. n - (w + 1) + 1 /\ w + 1 + p - 1 = w + p
      BY <1>2
    <2>4. (IF w + 1 <= n THEN n - (w + 1) + 1 ELSE 0) = n - w
      BY <1>2
    <2> QED
      BY <2>2, <2>3, <2>4
  <1> HIDE DEF w, R, s, t, rest
  <1>7. /\ Q \in Seq(Rendered) /\ Len(Q) = Len(P) + w
        /\ \A p \in 1 .. Len(P) : Q[p] = P[p]
        /\ \A p \in 1 .. w : Q[Len(P) + p] = R[p]
    <2>1. /\ Q \in Seq(Rendered) /\ Len(Q) = Len(P) + Len(R)
          /\ \A p \in 1 .. Len(P) + Len(R) :
                Q[p] = IF p <= Len(P) THEN P[p] ELSE R[p - Len(P)]
      BY <1>1, <1>4, ConcatProperties
    <2>2. Len(P) \in Nat
      BY <1>1
    <2> HIDE DEF Q
    <2>3. ASSUME NEW p \in 1 .. Len(P) PROVE Q[p] = P[p]
      BY <1>2, <1>4, <2>1, <2>2
    <2>4. ASSUME NEW p \in 1 .. w PROVE Q[Len(P) + p] = R[p]
      <3>1. Len(P) + p \in 1 .. Len(P) + w /\ ~(Len(P) + p <= Len(P)) /\ (Len(P) + p) - Len(P) = p
        BY <1>2, <2>2
      <3> QED
        BY <1>4, <2>1, <3>1
    <2> QED
      BY <1>4, <2>1, <2>3, <2>4
  <1> HIDE DEF Q
  <1>8. Len(P) \in Nat
    BY <1>1
  <1>9. ASSUME NEW p \in 1 .. Len(Q) PROVE IsFrame(Q[p], f + p - 1, f, V, T)
    <2>1. CASE p <= Len(P)
      BY <1>1, <1>7, <1>8, <2>1
    <2>2. CASE ~(p <= Len(P))
      <3> DEFINE q == p - Len(P)
      <3>1. q \in 1 .. w /\ Len(P) + q = p /\ q \in 1 .. n /\ f + Len(P) + q - 1 = f + p - 1
        BY <1>1, <1>2, <1>7, <1>8, <2>2
      <3> HIDE DEF q
      <3>2. Q[p] = s[q]
        BY <1>4, <1>7, <3>1
      <3>3. IsFrame(s[q], f + Len(P) + q - 1, f, V, T)
        BY <1>1, <3>1
      <3> QED
        BY <3>1, <3>2, <3>3
    <2> QED
      BY <2>1, <2>2
  <1>10. ASSUME NEW p \in 1 .. n - w PROVE IsFrame(t[p], f + Len(Q) + p - 1, f, V, T)
    <2>1. w + p \in 1 .. n /\ f + Len(P) + (w + p) - 1 = f + Len(Q) + p - 1
      BY <1>1, <1>2, <1>7, <1>8
    <2>2. IsFrame(s[w + p], f + Len(P) + (w + p) - 1, f, V, T)
      BY <1>1, <2>1
    <2> QED
      BY <1>6, <2>1, <2>2
  <1>11. rest.hang = l.hang /\ rest.delayed = t /\ rest \in [hang : Nat, delayed : Seq(Rendered)]
    BY <1>1, <1>5, <1>6
  <1>12. Len(Q) + (n - w) = m - f + 1
    <2>1. Len(P) + n = m - f + 1 /\ Len(Q) = Len(P) + w /\ f \in Nat /\ m \in Nat
      BY <1>1, <1>7
    <2>2. n \in Nat /\ w \in Nat
      BY <1>2
    <2> QED
      BY <1>8, <2>1, <2>2
  <1>13. FeedIsRight(rest, Q, f, m, V, T)
    BY <1>1, <1>6, <1>7, <1>9, <1>10, <1>11, <1>12 DEF FeedIsRight
  <1> QED
    BY <1>2, <1>6, <1>11, <1>13 DEF rest, Q, R, n, s

\* One frame through the live squelch.
LEMMA FeedStep ==
    ASSUME NEW l, NEW P, NEW f, NEW m, NEW V, NEW T, FeedIsRight(l, P, f, m, V, T),
           HangIs(l.hang, f, m, V, T), IsLate(l, P), m + 1 >= f,
           NEW kind \in Kinds, m + 1 \in V <=> kind = "voice", m + 1 \in T <=> kind = "static"
    PROVE  LET r == AppendRendered(l, m + 1, kind)
               k == Drained(r, Lookahead)
               Q == P \o Ready(r, Lookahead)
           IN  FeedIsRight(k, Q, f, m + 1, V, T) /\ HangIs(k.hang, f, m + 1, V, T)
               /\ IsLate(k, Q)
  <1> DEFINE r == AppendRendered(l, m + 1, kind)
             k == Drained(r, Lookahead)
             Q == P \o Ready(r, Lookahead)
             new == [at |-> m + 1, audible |-> Audible(l, kind)]
             s == l.delayed
             n == Len(s)
  <1>1. /\ l \in [hang : Nat, delayed : Seq(Rendered)] /\ P \in Seq(Rendered)
        /\ f \in Nat \ {0} /\ m \in Nat
        /\ Len(P) + n = m - f + 1
        /\ \A p \in 1 .. Len(P) : IsFrame(P[p], f + p - 1, f, V, T)
        /\ \A p \in 1 .. n : IsFrame(s[p], f + Len(P) + p - 1, f, V, T)
    BY DEF FeedIsRight
  <1>2. /\ HangIs(r.hang, f, m + 1, V, T)
        /\ Audible(l, kind) <=> OpenedIn(m + 1, f, V, T)
    BY <1>1, FrameIsRendered
  <1>3. new \in Rendered
    BY <1>1 DEF Rendered, Audible
  <1>4. IsFrame(new, m + 1, f, V, T)
    <2> DEFINE heardNow == Audible(l, kind)
    <2>1. new.at = m + 1 /\ new.audible = heardNow
      OBVIOUS
    <2> HIDE DEF new
    <2> QED
      BY <1>2, <2>1 DEF IsFrame
  <1> HIDE DEF new
  <1>5. r.delayed = Append(s, new) /\ r = [hang |-> r.hang, delayed |-> r.delayed]
    BY DEF AppendRendered, new
  <1>6. r.hang \in Nat
    BY <1>2 DEF HangIs
  <1>7. /\ Append(s, new) \in Seq(Rendered) /\ Len(Append(s, new)) = n + 1
        /\ Append(s, new)[n + 1] = new
        /\ \A p \in 1 .. n : Append(s, new)[p] = s[p]
    BY <1>1, <1>3
  <1> HIDE DEF r, n
  <1>8. Len(P) \in Nat /\ n \in Nat
    BY <1>1 DEF n
  <1>9. ASSUME NEW p \in 1 .. n + 1 PROVE IsFrame(Append(s, new)[p], f + Len(P) + p - 1, f, V, T)
    <2>1. CASE p = n + 1
      <3>1. f + Len(P) + p - 1 = m + 1
        BY <1>1, <1>8, <2>1
      <3> QED
        BY <1>4, <1>7, <2>1, <3>1
    <2>2. CASE p # n + 1
      BY <1>1, <1>7, <1>8, <2>2
    <2> QED
      BY <2>1, <2>2
  <1>10. \A p \in 1 .. Len(P) : IsFrame(P[p], f + p - 1, f, V, T)
    BY <1>1
  <1>11. /\ r \in [hang : Nat, delayed : Seq(Rendered)] /\ Len(r.delayed) = n + 1
         /\ m + 1 \in Nat /\ Len(P) + (n + 1) = (m + 1) - f + 1
    <2>1. r \in [hang : Nat, delayed : Seq(Rendered)]
      BY <1>5, <1>6, <1>7
    <2>2. Len(P) + n = m - f + 1 /\ f \in Nat /\ m \in Nat
      BY <1>1
    <2> QED
      BY <1>5, <1>7, <1>8, <2>1, <2>2
  <1> HIDE DEF s
  <1>12. FeedIsRight(r, P, f, m + 1, V, T)
    BY <1>1, <1>5, <1>9, <1>10, <1>11 DEF FeedIsRight
  <1>13. Lookahead \in Nat
    BY DetectorAssumption
  <1>14. /\ FeedIsRight(k, Q, f, m + 1, V, T) /\ k.hang = r.hang
         /\ Len(k.delayed) = IF Len(r.delayed) > Lookahead THEN Lookahead ELSE Len(r.delayed)
    BY <1>12, <1>13, FeedIsDrained
  <1> HIDE DEF k, Q
  <1>15. IsLate(k, Q)
    <2>1. n = IF Len(P) + n < Lookahead THEN Len(P) + n ELSE Lookahead
      BY DEF IsLate, n, s
    <2>2. Len(Q) + Len(k.delayed) = (m + 1) - f + 1 /\ Len(k.delayed) \in Nat /\ Len(Q) \in Nat
      BY <1>14, FeedReaches
    <2>3. Len(Q) + Len(k.delayed) = Len(P) + n + 1
      BY <1>1, <1>8, <2>2
    <2>4. Len(k.delayed) = IF n + 1 > Lookahead THEN Lookahead ELSE n + 1
      BY <1>11, <1>14
    <2>5. Len(k.delayed) = IF Len(P) + n + 1 < Lookahead THEN Len(P) + n + 1 ELSE Lookahead
      BY <1>8, <1>13, <2>1, <2>4
    <2> QED
      BY <2>3, <2>5 DEF IsLate
  <1> QED
    BY <1>2, <1>14, <1>15 DEF k, Q, r

\* Only the frames up to m matter for the feed, too.
LEMMA FeedHears ==
    ASSUME NEW l, NEW P, NEW f, NEW m, NEW V, NEW T, FeedIsRight(l, P, f, m, V, T),
           NEW W, NEW U, \A i \in 1 .. m : (i \in V <=> i \in W) /\ (i \in T <=> i \in U)
    PROVE  /\ FeedIsRight(l, P, f, m, W, U)
           /\ HangIs(l.hang, f, m, V, T) => HangIs(l.hang, f, m, W, U)
  <1>1. /\ f \in Nat \ {0} /\ m \in Nat
        /\ Len(P) + Len(l.delayed) = m - f + 1
        /\ Len(P) \in Nat /\ Len(l.delayed) \in Nat
    BY DEF FeedIsRight
  <1>2. \A i \in f .. m : \A j \in f .. i : HeardBy(j, i, V, T) <=> HeardBy(j, i, W, U)
    <2> TAKE i \in f .. m
    <2> TAKE j \in f .. i
    <2>1. j \in 1 .. m /\ \A k \in j .. i : k \in 1 .. m
      BY <1>1
    <2> QED
      BY <2>1 DEF HeardBy
  <1>3. \A i \in f .. m : OpenedIn(i, f, V, T) <=> OpenedIn(i, f, W, U)
    BY <1>2 DEF OpenedIn
  <1>4. ASSUME NEW p \in 1 .. Len(P) PROVE IsFrame(P[p], f + p - 1, f, W, U)
    <2>1. f + p - 1 \in f .. m
      BY <1>1
    <2>2. IsFrame(P[p], f + p - 1, f, V, T)
      BY DEF FeedIsRight
    <2> QED
      BY <1>3, <2>1, <2>2 DEF IsFrame
  <1>5. ASSUME NEW p \in 1 .. Len(l.delayed)
        PROVE  IsFrame(l.delayed[p], f + Len(P) + p - 1, f, W, U)
    <2>1. f + Len(P) + p - 1 \in f .. m
      BY <1>1
    <2>2. IsFrame(l.delayed[p], f + Len(P) + p - 1, f, V, T)
      BY DEF FeedIsRight
    <2> QED
      BY <1>3, <2>1, <2>2 DEF IsFrame
  <1>6. HangIs(l.hang, f, m, V, T) => HangIs(l.hang, f, m, W, U)
    <2>1. \A j \in f .. m : HeardBy(j, m, V, T) <=> HeardBy(j, m, W, U)
      <3>1. \A j \in f .. m : m \in f .. m
        BY <1>1
      <3> QED
        BY <1>2, <3>1
    <2> QED
      BY <2>1 DEF HangIs
  <1> QED
    BY <1>4, <1>5, <1>6 DEF FeedIsRight

\* A new process begins with an empty feed.
LEMMA FeedBegins ==
    ASSUME NEW n \in Nat, NEW V, NEW T
    PROVE  /\ FeedIsRight(Unrendered, <<>>, n + 1, n, V, T)
           /\ HangIs(Unrendered.hang, n + 1, n, V, T)
           /\ IsLate(Unrendered, <<>>)
  <1> DEFINE none == <<>>
  <1>1. none \in Seq(Rendered) /\ Len(none) = 0
    BY EmptyIs
  <1>2. Unrendered = [hang |-> 0, delayed |-> none]
    BY DEF Unrendered
  <1> HIDE DEF none
  <1>3. Lookahead \in Nat /\ PostRoll \in Nat
    BY DetectorAssumption
  <1>4. FeedIsRight(Unrendered, none, n + 1, n, V, T)
    BY <1>1, <1>2 DEF FeedIsRight
  <1>5. HangIs(Unrendered.hang, n + 1, n, V, T)
    BY <1>2, <1>3 DEF HangIs
  <1>6. IsLate(Unrendered, none)
    BY <1>1, <1>2, <1>3 DEF IsLate
  <1> QED
    BY <1>4, <1>5, <1>6 DEF none

-----------------------------------------------------------------------------
Pcs == {"read", "close", "describe", "hand", "listen", "flush",
        "clip", "upload", "stop", "join", "down"}

Through == from + Len(played) + Len(live.delayed) - 1

Voices  == {i \in 1 .. Now : heard[i] = "voice"}
Statics == {i \in 1 .. Now : heard[i] = "static"}

\* The process has not come to the end of its stream.
Listens ==
    \/ main.pc \in {"read", "close", "describe", "hand", "listen", "flush"}
    \/ main.pc \in {"clip", "upload"} /\ ~main.ended

\* The last frame was recorded, and not heard yet.
Records == main.pc \in {"close", "describe", "hand", "listen"} /\ ~main.ended

ControlIsRight ==
    /\ heard \in Seq(Kinds) /\ Now <= MaxFrames /\ from \in Nat
    /\ main \in [pc : Pcs, ended : BOOLEAN, exit : {"none", "clean", "failed", "killed"}]
    /\ main.pc \in {"read", "listen"} => ~main.ended
    /\ main.pc = "flush" => main.ended

PlaceIsRight ==
    /\ Through <= Now
    /\ Listens => Through = IF Records THEN Now - 1 ELSE Now

SoundIsRight ==
    /\ SquelchIsRight(detector, clips, from, Through, Voices, Listens)
    /\ FeedIsRight(live, played, from, Through, Voices, Statics)
    /\ Listens => /\ HangIs(live.hang, from, Through, Voices, Statics)
                  /\ IsLate(live, played)

SquelchInv == ControlIsRight /\ PlaceIsRight /\ SoundIsRight

\* The invariant holds in the first states ...
LEMMA SquelchInvInit == Init => SquelchInv
  <1> SUFFICES ASSUME Init PROVE SquelchInv
    OBVIOUS
  <1> DEFINE none == <<>>
  <1>1. \A S : none \in Seq(S)
    BY EmptyIs
  <1>2. Len(none) = 0
    BY EmptyIs
  <1>3. /\ heard = none /\ from = 1 /\ main = [pc |-> "read", ended |-> FALSE, exit |-> "none"]
        /\ detector = Silent /\ live = Unrendered /\ played = none /\ clips = {}
    BY DEF Init
  <1>4. Unrendered = [hang |-> 0, delayed |-> none] /\ MaxFrames \in Nat
    BY CaptureAssumption DEF Unrendered
  <1> HIDE DEF none
  <1>5. ControlIsRight
    BY <1>1, <1>2, <1>3, <1>4 DEF ControlIsRight, Pcs, Now
  <1>6. Through = 0 /\ Now = 0 /\ Listens /\ ~Records
    BY <1>2, <1>3, <1>4 DEF Through, Now, Listens, Records
  <1>7. FeedIsRight(live, played, 0 + 1, 0, Voices, Statics)
        /\ HangIs(live.hang, 0 + 1, 0, Voices, Statics) /\ IsLate(live, played)
    BY <1>3, FeedBegins DEF none
  <1>8. SquelchIsRight(detector, clips, 1, 0, Voices, TRUE)
    <2>1. SquelchIsRight(Silent, {}, 1, 0, Voices, TRUE)
      <3>1. ClipsAreRight({}, Voices) /\ 0 \in Nat /\ 0 + 1 = 1
        BY DEF ClipsAreRight
      <3>2. SquelchIsRight(Silent, {}, 0 + 1, 0, Voices, TRUE)
        BY <3>1, SquelchBegins
      <3> QED
        BY <3>1, <3>2
    <2> QED
      BY <1>3, <2>1
  <1>9. PlaceIsRight
    BY <1>6 DEF PlaceIsRight
  <1>10. SoundIsRight
    <2>1. SquelchIsRight(detector, clips, from, Through, Voices, Listens)
      <3>1. Listens = TRUE
        BY <1>6
      <3> HIDE DEF Listens
      <3> QED
        BY <1>3, <1>6, <1>8, <3>1
    <2>2. 0 + 1 = 1
      OBVIOUS
    <2> QED
      BY <1>3, <1>6, <1>7, <2>1, <2>2 DEF SoundIsRight
  <1> QED
    BY <1>5, <1>9, <1>10 DEF SquelchInv

\* Without a frame heard or played, the sound stays right.
LEMMA SoundStays ==
    ASSUME SoundIsRight, UNCHANGED <<heard, from, sound>>, Listens' => Listens
    PROVE  SoundIsRight'
  <1>1. /\ heard' = heard /\ from' = from /\ detector' = detector /\ live' = live
        /\ played' = played /\ clips' = clips
    BY DEF sound
  <1>2. Through' = Through /\ Voices' = Voices /\ Statics' = Statics
    BY <1>1 DEF Through, Voices, Statics, Now
  <1>3. SquelchIsRight(detector, clips, from, Through, Voices, Listens)
    BY DEF SoundIsRight
  <1>4. SquelchIsRight(detector, clips, from, Through, Voices, Listens')
    <2> DEFINE f == from
               m == Through
               V == Voices
               before == Listens
               after == Listens'
    <2>1. /\ detector \in Detectors /\ Len(detector.preRoll) <= PreRoll
          /\ f \in Nat \ {0} /\ m \in Nat /\ m + 1 >= f
          /\ ClipsAreRight(clips, V)
          /\ \E a \in Nat : BurstBegins(detector, clips, f, a, m, V, before)
      BY <1>3 DEF SquelchIsRight
    <2>2. PICK a \in Nat : BurstBegins(detector, clips, f, a, m, V, before)
      BY <2>1
    <2>3. after => before
      OBVIOUS
    <2> HIDE DEF f, m, V, before, after
    <2>4. BurstBegins(detector, clips, f, a, m, V, after)
      BY <2>2, <2>3 DEF BurstBegins
    <2>5. SquelchIsRight(detector, clips, f, m, V, after)
      BY <2>1, <2>4 DEF SquelchIsRight
    <2> QED
      BY <2>5 DEF f, m, V, after
  <1> HIDE DEF Listens
  <1>5. SquelchIsRight(detector', clips', from', Through', Voices', Listens')
    BY <1>1, <1>2, <1>4
  <1>6. FeedIsRight(live', played', from', Through', Voices', Statics')
    BY <1>1, <1>2 DEF SoundIsRight
  <1>7. Listens' => HangIs(live'.hang, from', Through', Voices', Statics')
                    /\ IsLate(live', played')
    BY <1>1, <1>2 DEF SoundIsRight
  <1> QED
    BY <1>5, <1>6, <1>7 DEF SoundIsRight

\* What the invariant gives a step.
LEMMA Facts ==
    ASSUME SquelchInv
    PROVE  /\ heard \in Seq(Kinds) /\ Now \in Nat /\ from \in Nat \ {0}
           /\ Through \in Nat /\ Through + 1 >= from /\ Through <= Now
           /\ live.delayed \in Seq(Rendered) /\ played \in Seq(Rendered)
           /\ detector \in Detectors
  <1>1. /\ heard \in Seq(Kinds) /\ Through <= Now
        /\ SquelchIsRight(detector, clips, from, Through, Voices, Listens)
        /\ FeedIsRight(live, played, from, Through, Voices, Statics)
    BY DEF SquelchInv, ControlIsRight, PlaceIsRight, SoundIsRight
  <1>2. detector \in Detectors /\ from \in Nat \ {0} /\ Through \in Nat /\ Through + 1 >= from
    <2> DEFINE V == Voices
               g == Listens
    <2>1. SquelchIsRight(detector, clips, from, Through, V, g)
      BY <1>1
    <2> HIDE DEF V, g
    <2> QED
      BY <2>1 DEF SquelchIsRight
  <1>3. live.delayed \in Seq(Rendered) /\ played \in Seq(Rendered)
    BY <1>1 DEF FeedIsRight
  <1>4. Now \in Nat
    BY <1>1 DEF Now
  <1> QED
    BY <1>1, <1>2, <1>3, <1>4

\* A frame is recorded, to be heard next.
LEMMA ReadStep ==
    ASSUME SquelchInv, NEW kind \in Kinds, ReadFrame(kind)
    PROVE  SquelchInv'
  <1>1. /\ heard \in Seq(Kinds) /\ Now \in Nat /\ from \in Nat \ {0}
        /\ Through \in Nat /\ Through + 1 >= from /\ Through <= Now
    BY Facts
  <1>2. /\ main.pc = "read" /\ Now < MaxFrames /\ heard' = Append(heard, kind)
        /\ main' = [main EXCEPT !.pc = IF FillsSegment THEN "close" ELSE "listen"]
        /\ from' = from /\ detector' = detector /\ live' = live /\ played' = played
        /\ clips' = clips
    BY DEF ReadFrame, Goto, sound
  <1>3. main \in [pc : Pcs, ended : BOOLEAN, exit : {"none", "clean", "failed", "killed"}]
        /\ ~main.ended
    BY <1>2 DEF SquelchInv, ControlIsRight
  <1>4. /\ heard' \in Seq(Kinds) /\ Now' = Now + 1
        /\ \A i \in 1 .. Now : heard'[i] = heard[i]
    BY <1>1, <1>2 DEF Now
  <1>5. /\ main' \in [pc : Pcs, ended : BOOLEAN, exit : {"none", "clean", "failed", "killed"}]
        /\ main'.pc \in {"close", "listen"} /\ main'.ended = FALSE
    <2> DEFINE pc == IF FillsSegment THEN "close" ELSE "listen"
    <2>1. pc \in {"close", "listen"} /\ main' = [main EXCEPT !.pc = pc]
      BY <1>2
    <2> HIDE DEF pc
    <2> QED
      BY <1>3, <2>1 DEF Pcs
  <1>6. Listens /\ ~Records /\ Listens' /\ Records'
    BY <1>2, <1>5 DEF Listens, Records
  <1>7. Through = Now /\ Through' = Through
    BY <1>2, <1>6 DEF SquelchInv, PlaceIsRight, Through
  <1>8. ControlIsRight'
    BY <1>1, <1>2, <1>4, <1>5, CaptureAssumption DEF ControlIsRight
  <1>9. PlaceIsRight'
    BY <1>1, <1>4, <1>6, <1>7 DEF PlaceIsRight
  <1>10. \A i \in 1 .. Through : (i \in Voices <=> i \in Voices') /\ (i \in Statics <=> i \in Statics')
    <2>1. \A i \in 1 .. Now : i \in 1 .. Now'
      BY <1>1, <1>4
    <2> QED
      BY <1>4, <1>7, <2>1 DEF Voices, Statics
  <1>11. SquelchIsRight(detector', clips', from', Through', Voices', Listens')
    <2>1. SquelchIsRight(detector, clips, from, Through, Voices, Listens)
      BY DEF SquelchInv, SoundIsRight
    <2>2. Listens' = Listens
      BY <1>6
    <2> HIDE DEF Listens
    <2>3. SquelchIsRight(detector, clips, from, Through, Voices', Listens)
      BY <1>10, <2>1, SquelchHears
    <2> QED
      BY <1>2, <1>7, <2>2, <2>3
  <1>12. /\ FeedIsRight(live', played', from', Through', Voices', Statics')
         /\ HangIs(live'.hang, from', Through', Voices', Statics')
         /\ IsLate(live', played')
    <2>1. /\ FeedIsRight(live, played, from, Through, Voices, Statics)
          /\ HangIs(live.hang, from, Through, Voices, Statics) /\ IsLate(live, played)
      BY <1>6 DEF SquelchInv, SoundIsRight
    <2>2. /\ FeedIsRight(live, played, from, Through, Voices', Statics')
          /\ HangIs(live.hang, from, Through, Voices', Statics')
      BY <1>10, <2>1, FeedHears
    <2> QED
      BY <1>2, <1>7, <2>1, <2>2
  <1> QED
    BY <1>8, <1>9, <1>11, <1>12 DEF SquelchInv, SoundIsRight

\* The clips found by a process are its own.
LEMMA ClipsAreCut ==
    \A found : NewClips(found) = ClipsFrom(from, found)
  BY DEF NewClips, Cut, ClipsFrom

\* ... and a frame that is heard goes through both squelches ...
LEMMA ListenStep == SquelchInv /\ Listen => SquelchInv'
  <1> SUFFICES ASSUME SquelchInv, Listen PROVE SquelchInv'
    OBVIOUS
  <1> DEFINE kind     == heard[Now]
             rendered == AppendRendered(live, Now, kind)
             loud     == IsUnsquelched(kind)
             burst    == Heard(detector, Now, loud)
             ends     == Ends(detector, burst)
             found    == IF ends THEN ClipsOf(burst) ELSE {}
             m        == Through
  <1>1. /\ heard \in Seq(Kinds) /\ Now \in Nat /\ from \in Nat \ {0}
        /\ m \in Nat /\ m + 1 >= from /\ m <= Now
    BY Facts
  <1>2. /\ main.pc = "listen"
        /\ played' = played \o Ready(rendered, Lookahead)
        /\ live' = Drained(rendered, Lookahead)
        /\ detector' = IF ends THEN Finished(burst) ELSE burst
        /\ clips' = clips \cup NewClips(found)
        /\ main' = [main EXCEPT !.pc = IF found = {} THEN "read" ELSE "clip"]
        /\ heard' = heard /\ from' = from
    BY DEF Listen, Goto
  <1>3. main \in [pc : Pcs, ended : BOOLEAN, exit : {"none", "clean", "failed", "killed"}]
        /\ ~main.ended
    BY <1>2 DEF SquelchInv, ControlIsRight
  <1>4. Listens /\ Records
    BY <1>2, <1>3 DEF Listens, Records
  <1>5. m = Now - 1 /\ m + 1 = Now /\ Now \in 1 .. Now
    <2>1. m = Now - 1
      BY <1>4 DEF SquelchInv, PlaceIsRight
    <2> HIDE DEF m
    <2> QED
      BY <1>1, <2>1
  <1>6. kind \in Kinds
    BY <1>1, <1>5 DEF Now
  <1>7. /\ Voices' = Voices /\ Statics' = Statics /\ Now' = Now
        /\ (m + 1 \in Voices <=> kind = "voice") /\ (m + 1 \in Statics <=> kind = "static")
    BY <1>2, <1>5 DEF Voices, Statics, Now
  <1>8. /\ FeedIsRight(live', played', from', m + 1, Voices', Statics')
        /\ HangIs(live'.hang, from', m + 1, Voices', Statics') /\ IsLate(live', played')
    <2>1. /\ FeedIsRight(live, played, from, m, Voices, Statics)
          /\ HangIs(live.hang, from, m, Voices, Statics) /\ IsLate(live, played)
      BY <1>4 DEF SquelchInv, SoundIsRight
    <2>2. rendered = AppendRendered(live, m + 1, kind)
      BY <1>5
    <2> HIDE DEF kind, m
    <2>3. /\ FeedIsRight(Drained(rendered, Lookahead), played \o Ready(rendered, Lookahead),
                         from, m + 1, Voices, Statics)
          /\ HangIs(Drained(rendered, Lookahead).hang, from, m + 1, Voices, Statics)
          /\ IsLate(Drained(rendered, Lookahead), played \o Ready(rendered, Lookahead))
      BY <1>1, <1>6, <1>7, <2>1, <2>2, FeedStep
    <2> HIDE DEF rendered
    <2> QED
      BY <1>2, <1>7, <2>3
  <1>9. SquelchIsRight(detector', clips', from', m + 1, Voices', TRUE)
    <2>1. SquelchIsRight(detector, clips, from, m, Voices, TRUE)
      <3>1. Listens = TRUE
        BY <1>4
      <3>2. SquelchIsRight(detector, clips, from, m, Voices, Listens)
        BY DEF SquelchInv, SoundIsRight
      <3> HIDE DEF Listens, m
      <3> QED
        BY <3>1, <3>2
    <2> DEFINE b == Heard(detector, m + 1, m + 1 \in Voices)
               found2 == IF Ends(detector, b) THEN ClipsOf(b) ELSE {}
    <2>2. loud = (m + 1 \in Voices)
      BY <1>7 DEF IsUnsquelched
    <2>3. burst = b
      <3> HIDE DEF loud, m
      <3> QED
        BY <1>5, <2>2
    <2> HIDE DEF m, loud
    <2>4. SquelchIsRight(IF Ends(detector, b) THEN Finished(b) ELSE b,
                         clips \cup ClipsFrom(from, found2), from, m + 1, Voices, TRUE)
      BY <2>1, SquelchStep
    <2> HIDE DEF b, burst
    <2>5. detector' = (IF Ends(detector, b) THEN Finished(b) ELSE b)
          /\ clips' = clips \cup ClipsFrom(from, found2)
      BY <1>2, <2>3, ClipsAreCut
    <2> HIDE DEF found2
    <2> QED
      BY <1>2, <1>7, <2>4, <2>5
  <1>10. Through' = m + 1 /\ Through' = Now'
    <2> HIDE DEF m
    <2>1. from' + Len(played') + Len(live'.delayed) - 1 = m + 1
      BY <1>8, FeedReaches
    <2> QED
      BY <1>5, <1>7, <2>1 DEF Through
  <1>11. /\ main' \in [pc : Pcs, ended : BOOLEAN, exit : {"none", "clean", "failed", "killed"}]
         /\ main'.pc \in {"read", "clip"} /\ main'.ended = FALSE
    <2> DEFINE pc == IF found = {} THEN "read" ELSE "clip"
    <2>1. pc \in {"read", "clip"} /\ main' = [main EXCEPT !.pc = pc]
      BY <1>2
    <2> HIDE DEF pc
    <2> QED
      BY <1>3, <2>1 DEF Pcs
  <1>12. Listens' /\ ~Records'
    BY <1>11 DEF Listens, Records
  <1>13. ControlIsRight'
    BY <1>2, <1>7, <1>11 DEF SquelchInv, ControlIsRight
  <1>14. PlaceIsRight'
    BY <1>1, <1>7, <1>10, <1>12 DEF PlaceIsRight
  <1>15. SoundIsRight'
    <2>1. Listens' = TRUE
      BY <1>12
    <2>2. SquelchIsRight(detector', clips', from', Through', Voices', Listens')
      <3> HIDE DEF Listens, m
      <3> QED
        BY <1>9, <1>10, <2>1
    <2> HIDE DEF m
    <2> QED
      BY <1>8, <1>10, <2>2 DEF SoundIsRight
  <1> QED
    BY <1>13, <1>14, <1>15 DEF SquelchInv

\* ... the end of the stream ends the burst and writes what was delayed ...
LEMMA FlushStep == SquelchInv /\ Flush => SquelchInv'
  <1> SUFFICES ASSUME SquelchInv, Flush PROVE SquelchInv'
    OBVIOUS
  <1> DEFINE found == IF detector.open THEN ClipsOf(detector) ELSE {}
             m     == Through
  <1>1. /\ heard \in Seq(Kinds) /\ Now \in Nat /\ from \in Nat \ {0}
        /\ m \in Nat /\ m + 1 >= from /\ m <= Now
    BY Facts
  <1>2. /\ main.pc = "flush"
        /\ played' = played \o Ready(live, 0)
        /\ live' = Drained(live, 0)
        /\ detector' = IF detector.open THEN Finished(detector) ELSE detector
        /\ clips' = clips \cup NewClips(found)
        /\ main' = [main EXCEPT !.pc = IF found = {} THEN "stop" ELSE "clip"]
        /\ heard' = heard /\ from' = from
    BY DEF Flush, Goto
  <1>3. main \in [pc : Pcs, ended : BOOLEAN, exit : {"none", "clean", "failed", "killed"}]
        /\ main.ended
    BY <1>2 DEF SquelchInv, ControlIsRight
  <1>4. Listens
    BY <1>2 DEF Listens
  <1>5. Voices' = Voices /\ Statics' = Statics /\ Now' = Now
    BY <1>2 DEF Voices, Statics, Now
  <1>6. FeedIsRight(live', played', from', m, Voices', Statics')
    <2>1. FeedIsRight(live, played, from, m, Voices, Statics)
      BY DEF SquelchInv, SoundIsRight
    <2> HIDE DEF m
    <2>2. FeedIsRight(Drained(live, 0), played \o Ready(live, 0), from, m, Voices, Statics)
      BY <2>1, FeedIsDrained
    <2> QED
      BY <1>2, <1>5, <2>2
  <1>7. SquelchIsRight(detector', clips', from', m, Voices', FALSE)
    <2>1. SquelchIsRight(detector, clips, from, m, Voices, TRUE)
      <3>1. Listens = TRUE
        BY <1>4
      <3>2. SquelchIsRight(detector, clips, from, m, Voices, Listens)
        BY DEF SquelchInv, SoundIsRight
      <3> HIDE DEF Listens, m
      <3> QED
        BY <3>1, <3>2
    <2> HIDE DEF m
    <2>2. SquelchIsRight(IF detector.open THEN Finished(detector) ELSE detector,
                         clips \cup ClipsFrom(from, found), from, m, Voices, FALSE)
      BY <2>1, SquelchEnds
    <2>3. clips' = clips \cup ClipsFrom(from, found)
      BY <1>2, ClipsAreCut
    <2> HIDE DEF found
    <2> QED
      BY <1>2, <1>5, <2>2, <2>3
  <1>8. Through' = m
    <2> HIDE DEF m
    <2>1. from' + Len(played') + Len(live'.delayed) - 1 = m
      BY <1>6, FeedReaches
    <2> QED
      BY <2>1 DEF Through
  <1>9. /\ main' \in [pc : Pcs, ended : BOOLEAN, exit : {"none", "clean", "failed", "killed"}]
        /\ main'.pc \in {"stop", "clip"} /\ main'.ended = TRUE
    <2> DEFINE pc == IF found = {} THEN "stop" ELSE "clip"
    <2>1. pc \in {"stop", "clip"} /\ main' = [main EXCEPT !.pc = pc]
      BY <1>2
    <2> HIDE DEF pc
    <2> QED
      BY <1>3, <2>1 DEF Pcs
  <1>10. ~Listens'
    BY <1>9 DEF Listens
  <1>11. ControlIsRight'
    BY <1>2, <1>5, <1>9 DEF SquelchInv, ControlIsRight
  <1>12. PlaceIsRight'
    BY <1>1, <1>5, <1>8, <1>10 DEF PlaceIsRight
  <1>13. SoundIsRight'
    <2>1. Listens' = FALSE
      BY <1>10
    <2>2. SquelchIsRight(detector', clips', from', Through', Voices', Listens')
      <3> HIDE DEF Listens, m
      <3> QED
        BY <1>7, <1>8, <2>1
    <2> HIDE DEF m
    <2> QED
      BY <1>6, <1>8, <1>10, <2>2 DEF SoundIsRight
  <1> QED
    BY <1>11, <1>12, <1>13 DEF SquelchInv

\* ... and a new process begins behind the clips of those before it.
LEMMA RestartStep == SquelchInv /\ Restart => SquelchInv'
  <1> SUFFICES ASSUME SquelchInv, Restart PROVE SquelchInv'
    OBVIOUS
  <1>1. /\ heard \in Seq(Kinds) /\ Now \in Nat /\ Through \in Nat /\ Through <= Now
    BY Facts
  <1> DEFINE none == <<>>
  <1>2. /\ Now < MaxFrames /\ from' = Now + 1 /\ heard' = heard /\ clips' = clips
        /\ main' = [pc |-> "read", ended |-> FALSE, exit |-> "none"]
        /\ detector' = Silent /\ live' = Unrendered /\ played' = none
    BY DEF Restart
  <1>3. Voices' = Voices /\ Statics' = Statics /\ Now' = Now
    BY <1>2 DEF Voices, Statics, Now
  <1>4. Len(none) = 0
    BY EmptyIs
  <1>5. Unrendered = [hang |-> 0, delayed |-> none]
    BY DEF Unrendered
  <1>6. /\ FeedIsRight(live', played', from', Now, Voices', Statics')
        /\ HangIs(live'.hang, from', Now, Voices', Statics') /\ IsLate(live', played')
    BY <1>1, <1>2, FeedBegins
  <1> HIDE DEF none
  <1>7. Through' = Now
    BY <1>1, <1>2, <1>4, <1>5 DEF Through
  <1>8. Listens' /\ ~Records'
    BY <1>2 DEF Listens, Records
  <1>9. SquelchIsRight(detector', clips', from', Now, Voices', TRUE)
    <2>1. SquelchIsRight(detector, clips, from, Through, Voices, Listens)
      BY DEF SquelchInv, SoundIsRight
    <2>2. ClipsAreRight(clips, Voices) /\ \A c \in clips : c.last < Now + 1
      BY <1>1, <2>1, ClipsAreOver
    <2>3. SquelchIsRight(Silent, clips, Now + 1, Now, Voices, TRUE)
      BY <1>1, <2>2, SquelchBegins
    <2> QED
      BY <1>2, <1>3, <2>3
  <1>10. ControlIsRight'
    BY <1>1, <1>2, <1>3 DEF SquelchInv, ControlIsRight, Pcs
  <1>11. PlaceIsRight'
    BY <1>1, <1>3, <1>7, <1>8 DEF PlaceIsRight
  <1>12. SoundIsRight'
    <2>1. Listens' = TRUE
      BY <1>8
    <2>2. SquelchIsRight(detector', clips', from', Through', Voices', Listens')
      <3> HIDE DEF Listens
      <3> QED
        BY <1>7, <1>9, <2>1
    <2> QED
      BY <1>6, <1>7, <2>2 DEF SoundIsRight
  <1> QED
    BY <1>10, <1>11, <1>12 DEF SquelchInv

Exits == {"none", "clean", "failed", "killed"}

\* A step of the main thread to `pc` that hears and plays nothing.
GoesTo(pc, ended) ==
    /\ pc \in Pcs /\ ended \in BOOLEAN
    /\ main'.pc = pc /\ main'.ended = ended
    /\ main' \in [pc : Pcs, ended : BOOLEAN, exit : Exits]

\* A step of the main thread that hears and plays nothing keeps what is known of
\* the squelches.
LEMMA StillStep ==
    ASSUME SquelchInv, UNCHANGED <<heard, from, sound>>,
           NEW pc, NEW ended, GoesTo(pc, ended),
           pc \in {"read", "listen"} => ~ended, pc = "flush" => ended,
           Listens' => Listens /\ (Records' <=> Records)
    PROVE  SquelchInv'
  <1>1. /\ heard' = heard /\ from' = from /\ Now' = Now /\ Through' = Through
    BY DEF sound, Now, Through
  <1>2. ControlIsRight'
    BY <1>1 DEF SquelchInv, ControlIsRight, GoesTo, Exits
  <1>3. PlaceIsRight'
    BY <1>1 DEF SquelchInv, PlaceIsRight
  <1>4. SoundIsRight'
    BY SoundStays DEF SquelchInv
  <1> QED
    BY <1>2, <1>3, <1>4 DEF SquelchInv

\* Steps that leave the main thread where it is.
LEMMA OtherStep ==
    ASSUME SquelchInv, UNCHANGED <<heard, from, sound, main>>
    PROVE  SquelchInv'
  <1>1. heard' = heard /\ from' = from /\ main' = main /\ Now' = Now /\ Through' = Through
    BY DEF sound, Now, Through
  <1>2. (Listens' <=> Listens) /\ (Records' <=> Records)
    BY <1>1 DEF Listens, Records
  <1>3. ControlIsRight' /\ PlaceIsRight'
    BY <1>1, <1>2 DEF SquelchInv, ControlIsRight, PlaceIsRight
  <1>4. SoundIsRight'
    BY <1>2, SoundStays DEF SquelchInv
  <1> QED
    BY <1>3, <1>4 DEF SquelchInv

\* Where Goto leads.
LEMMA MainGoes ==
    ASSUME SquelchInv, NEW pc \in Pcs, Goto(pc)
    PROVE  GoesTo(pc, main.ended)
  BY DEF SquelchInv, ControlIsRight, Goto, GoesTo, Exits

\* The steps of the main thread that hear and play nothing.
LEMMA MainSteps ==
    ASSUME SquelchInv,
           \/ EndOfStream \/ NameAudio \/ NameMetadata \/ HandOver \/ UploadClip
           \/ StopWorker \/ Exit \/ MainFails \/ Kill
           \/ \E temp \in Weather, busy \in BOOLEAN : HandleClip(temp, busy)
    PROVE  SquelchInv'
  <1>1. /\ main \in [pc : Pcs, ended : BOOLEAN, exit : Exits]
        /\ main.pc \in {"read", "listen"} => ~main.ended
    BY DEF SquelchInv, ControlIsRight, Exits
  <1>2. CASE EndOfStream
    <2> DEFINE pc == IF segment = 0 THEN "flush" ELSE "close"
    <2>1. /\ main.pc = "read" /\ main' = [main EXCEPT !.pc = pc, !.ended = TRUE]
          /\ pc \in {"flush", "close"} /\ UNCHANGED <<heard, from, sound>>
      BY <1>2 DEF EndOfStream
    <2> HIDE DEF pc
    <2>2. GoesTo(pc, TRUE)
      BY <1>1, <2>1 DEF GoesTo, Pcs
    <2>3. Listens /\ ~Records /\ ~Records'
      BY <2>1, <2>2 DEF Listens, Records, GoesTo
    <2> QED
      BY <2>1, <2>2, <2>3, StillStep
  <1>3. CASE NameAudio
    <2>1. main.pc = "close" /\ Goto("describe") /\ UNCHANGED <<heard, from, sound>>
      BY <1>3 DEF NameAudio
    <2>2. GoesTo("describe", main.ended)
      BY <2>1, MainGoes DEF Pcs
    <2>3. Listens /\ (Records' <=> Records)
      BY <2>1, <2>2 DEF Listens, Records, GoesTo
    <2> QED
      BY <2>1, <2>2, <2>3, StillStep
  <1>4. CASE NameMetadata
    <2>1. main.pc = "describe" /\ Goto("hand") /\ UNCHANGED <<heard, from, sound>>
      BY <1>4 DEF NameMetadata
    <2>2. GoesTo("hand", main.ended)
      BY <2>1, MainGoes DEF Pcs
    <2>3. Listens /\ (Records' <=> Records)
      BY <2>1, <2>2 DEF Listens, Records, GoesTo
    <2> QED
      BY <2>1, <2>2, <2>3, StillStep
  <1>5. CASE HandOver
    <2> DEFINE pc == IF main.ended THEN "flush" ELSE "listen"
    <2>1. main.pc = "hand" /\ Goto(pc) /\ UNCHANGED <<heard, from, sound>>
      BY <1>5 DEF HandOver
    <2>2. pc \in Pcs /\ (pc = "listen" => ~main.ended) /\ (pc = "flush" => main.ended)
          /\ pc # "read" /\ pc \in {"flush", "listen"}
      BY DEF Pcs
    <2> HIDE DEF pc
    <2>3. GoesTo(pc, main.ended)
      BY <2>1, <2>2, MainGoes
    <2>4. Listens /\ (Records' <=> Records)
      BY <1>1, <2>1, <2>2, <2>3 DEF Listens, Records, GoesTo
    <2> QED
      BY <2>1, <2>2, <2>3, <2>4, StillStep
  <1>6. CASE UploadClip
    <2>1. main.pc = "upload" /\ Goto(Afterwards) /\ UNCHANGED <<heard, from, sound>>
      BY <1>6 DEF UploadClip
    <2>2. Afterwards \in {"read", "stop"} /\ (Afterwards = "read" <=> ~main.ended)
          /\ Afterwards \in Pcs
      BY DEF Afterwards, Pcs
    <2>3. GoesTo(Afterwards, main.ended)
      BY <2>1, <2>2, MainGoes
    <2>4. (Listens' => Listens) /\ ~Records /\ ~Records'
      BY <2>1, <2>2, <2>3 DEF Listens, Records, GoesTo
    <2> QED
      BY <2>1, <2>2, <2>3, <2>4, StillStep
  <1>7. CASE StopWorker
    <2>1. main.pc = "stop" /\ Goto("join") /\ UNCHANGED <<heard, from, sound>>
      BY <1>7 DEF StopWorker
    <2>2. GoesTo("join", main.ended)
      BY <2>1, MainGoes DEF Pcs
    <2>3. ~Listens'
      BY <2>2 DEF Listens, GoesTo
    <2> QED
      BY <2>1, <2>2, <2>3, StillStep
  <1>8. CASE Exit
    <2> DEFINE how == IF main.ended THEN "clean" ELSE "failed"
    <2>1. main' = [main EXCEPT !.pc = "down", !.exit = how] /\ UNCHANGED <<heard, from, sound>>
      BY <1>8 DEF Exit
    <2>2. how \in Exits
      BY DEF Exits
    <2> HIDE DEF how
    <2>3. GoesTo("down", main.ended)
      BY <1>1, <2>1, <2>2 DEF GoesTo, Pcs
    <2>4. ~Listens'
      BY <2>3 DEF Listens, GoesTo
    <2> QED
      BY <2>1, <2>3, <2>4, StillStep
  <1>9. CASE MainFails
    <2>1. main' = [main EXCEPT !.pc = "stop", !.ended = FALSE] /\ UNCHANGED <<heard, from, sound>>
      BY <1>9 DEF MainFails
    <2>2. GoesTo("stop", FALSE)
      BY <1>1, <2>1 DEF GoesTo, Pcs
    <2>3. ~Listens'
      BY <2>2 DEF Listens, GoesTo
    <2> QED
      BY <2>1, <2>2, <2>3, StillStep
  <1>10. CASE Kill
    <2>1. main' = [main EXCEPT !.pc = "down", !.exit = "killed"] /\ UNCHANGED <<heard, from, sound>>
      BY <1>10 DEF Kill
    <2>2. GoesTo("down", main.ended)
      BY <1>1, <2>1 DEF GoesTo, Pcs, Exits
    <2>3. ~Listens'
      BY <2>2 DEF Listens, GoesTo
    <2> QED
      BY <2>1, <2>2, <2>3, StillStep
  <1>11. ASSUME NEW temp \in Weather, NEW busy \in BOOLEAN, HandleClip(temp, busy)
         PROVE  SquelchInv'
    <2> DEFINE pc == IF ShouldPause(temp, busy) THEN Afterwards ELSE "upload"
    <2>1. main.pc = "clip" /\ Goto(pc) /\ UNCHANGED <<heard, from, sound>>
      BY <1>11 DEF HandleClip
    <2>2. pc \in {"read", "stop", "upload"} /\ (pc = "read" => ~main.ended) /\ pc \in Pcs
      BY DEF Afterwards, Pcs
    <2> HIDE DEF pc
    <2>3. GoesTo(pc, main.ended)
      BY <2>1, <2>2, MainGoes
    <2>4. (Listens' => Listens) /\ ~Records /\ ~Records'
      BY <2>1, <2>2, <2>3 DEF Listens, Records, GoesTo
    <2> QED
      BY <2>1, <2>2, <2>3, <2>4, StillStep
  <1> QED
    BY <1>2, <1>3, <1>4, <1>5, <1>6, <1>7, <1>8, <1>9, <1>10, <1>11

\* The worker does not touch the sound.
LEMMA WorkerSteps == SquelchInv /\ WorkerStep => SquelchInv'
  <1> SUFFICES ASSUME SquelchInv, WorkerStep PROVE SquelchInv'
    OBVIOUS
  <1>1. UNCHANGED <<heard, from, sound, main>>
    BY DEF WorkerStep, Take, UploadSegment, RemoveAudio, RemoveMetadata
  <1> QED
    BY <1>1, OtherStep

\* The inductive invariant of the squelches.
CaptureInv == recording \in BOOLEAN /\ SquelchInv

\* Every step keeps the invariant.
LEMMA CaptureInvStep == CaptureInv /\ [CaptureNext]_vars => CaptureInv'
  <1> SUFFICES ASSUME CaptureInv, [CaptureNext]_vars PROVE CaptureInv'
    OBVIOUS
  <1>1. recording \in BOOLEAN /\ SquelchInv
    BY DEF CaptureInv
  <1>2. recording' \in BOOLEAN
    BY <1>1 DEF CaptureNext, vars
  <1>3. CASE UNCHANGED vars
    <2>1. UNCHANGED <<heard, from, sound, main>>
      BY <1>3 DEF vars, process
    <2> QED
      BY <1>1, <1>2, <2>1, OtherStep DEF CaptureInv
  <1>4. ASSUME NEW kind \in Kind(Now + 1, recording), ReadFrame(kind)
        PROVE  SquelchInv'
    <2>1. Now \in Nat /\ Now < MaxFrames
      BY <1>1, <1>4, Facts DEF ReadFrame
    <2>2. Now + 1 \in 1 .. MaxFrames
      BY <2>1, CaptureAssumption
    <2>3. kind \in Kinds
      BY <1>1, <2>2, CaptureAssumption DEF Kinds
    <2> QED
      BY <1>1, <1>4, <2>3, ReadStep
  <1>5. CASE MainStep
    BY <1>1, <1>2, <1>5, ListenStep, FlushStep, MainSteps DEF MainStep, CaptureInv
  <1>6. CASE EndOfStream \/ MainFails \/ Kill
    BY <1>1, <1>2, <1>6, MainSteps DEF CaptureInv
  <1>7. CASE WorkerStep
    BY <1>1, <1>2, <1>7, WorkerSteps DEF CaptureInv
  <1>8. CASE Restart
    BY <1>1, <1>2, <1>8, RestartStep DEF CaptureInv
  <1> QED
    BY <1>2, <1>3, <1>4, <1>5, <1>6, <1>7, <1>8 DEF CaptureInv, CaptureNext

\* What the invariant says of the clips.
LEMMA ClipsMatch == SquelchInv => ClipsMatchActivity
  <1> SUFFICES ASSUME SquelchInv PROVE ClipsMatchActivity
    OBVIOUS
  <1> DEFINE V == Voices
             f == from
             m == Through
             g == Listens
  <1>1. SquelchIsRight(detector, clips, f, m, V, g)
    BY DEF SquelchInv, SoundIsRight
  <1>2. f \in Nat \ {0} /\ m \in Nat /\ m <= Now /\ Now \in Nat
    BY Facts
  <1>3. Listened = f .. m
    BY DEF Listened, Through
  <1>4. \A i : i \in V => i \in Nat /\ Voice(i)
    BY <1>2 DEF Voices, Voice
  <1>5. \A i \in f .. m : Voice(i) => i \in V
    BY <1>2 DEF Voices, Voice
  <1> HIDE DEF V, f, m, g
  <1>6. ClipsAreRight(clips, V)
    BY <1>1 DEF SquelchIsRight
  <1>7. ASSUME NEW c \in clips
        PROVE  /\ c.last = c.first + c.length - 1
               /\ c.first >= c.from
               /\ Voice(c.first) /\ Voice(c.last)
               /\ c.length \in MinClip .. MaxClip
               /\ PostRoll > 0 =>
                     \A i \in c.first .. c.last - PostRoll :
                        \E j \in i .. i + PostRoll - 1 : Voice(j)
    <2>1. ClipIsRight(c, V)
      BY <1>6 DEF ClipsAreRight
    <2> QED
      BY <1>4, <2>1 DEF ClipIsRight
  <1>8. \A c, d \in clips : c = d \/ c.last < d.first \/ d.last < c.first
    BY <1>6 DEF ClipsAreRight
  <1>9. ASSUME NEW i \in Listened,
               i .. i + MinClip - 1 \subseteq Listened,
               \A j \in i .. i + MinClip - 1 : Voice(j)
        PROVE  \E j \in i .. i + MinClip - 1 : Covered(j)
    <2>1. i \in Nat /\ i + MinClip - 1 \in i .. i + MinClip - 1
      BY <1>2, <1>3, DetectorAssumption
    <2>2. i + MinClip - 1 <= m /\ i .. i + MinClip - 1 \subseteq V
      BY <1>2, <1>3, <1>5, <1>9, <2>1
    <2>3. IsRun(i, f, m, V)
      BY <1>3, <2>2 DEF IsRun
    <2>4. \E j \in i .. i + MinClip - 1 :
             InClip(clips, j) \/ \E p \in DOMAIN detector.frames : detector.frames[p].at = j
      BY <1>1, <2>1, <2>3, SquelchKeepsSpeech
    <2> QED
      BY <2>4 DEF Covered, InClip
  <1> QED
    BY <1>7, <1>8, <1>9 DEF ClipsMatchActivity

\* What it says of the live feed.
LEMMA LiveFeedIs == SquelchInv => LiveFeedIsRight
  <1> SUFFICES ASSUME SquelchInv PROVE LiveFeedIsRight
    OBVIOUS
  <1>1. FeedIsRight(live, played, from, Through, Voices, Statics)
    BY DEF SquelchInv, SoundIsRight
  <1>2. /\ heard \in Seq(Kinds) /\ Now \in Nat /\ from \in Nat \ {0}
        /\ Through \in Nat /\ Through <= Now /\ Through + 1 >= from
        /\ live.delayed \in Seq(Rendered) /\ played \in Seq(Rendered)
    BY Facts
  <1>3. from + Len(played) + Len(live.delayed) - 1 = Through
    BY <1>1, FeedReaches
  <1>4. ASSUME NEW i \in from .. Through
        PROVE  Opened(i) <=> OpenedIn(i, from, Voices, Statics)
    <2>1. \A j \in from .. i : /\ Voice(j) <=> j \in Voices
                               /\ heard[j] = "static" <=> j \in Statics
                               /\ j \in Nat
      BY <1>2 DEF Voice, Voices, Statics
    <2>2. \A j \in from .. i : \A k \in j .. i : k \in from .. i
      BY <1>2
    <2> QED
      BY <2>1, <2>2 DEF Opened, OpenedIn, HeardBy
  <1>5. ASSUME NEW p \in DOMAIN played
        PROVE  played[p].at = from + p - 1 /\ played[p].audible = Opened(from + p - 1)
    <2> DEFINE n == Len(played)
               k == Len(live.delayed)
               i == from + p - 1
    <2>1. /\ p \in 1 .. n /\ n \in Nat /\ k \in Nat /\ from + n + k - 1 = Through
      <3>1. n \in Nat /\ k \in Nat /\ DOMAIN played = 1 .. n
        BY <1>2
      <3> QED
        BY <1>3, <3>1
    <2>2. IsFrame(played[p], i, from, Voices, Statics)
      BY <1>1, <2>1 DEF FeedIsRight
    <2>3. played[p] \in Rendered
      BY <1>2
    <2> HIDE DEF n, k
    <2>4. i \in from .. Through
      BY <1>2, <2>1
    <2> HIDE DEF i
    <2>5. Opened(i) <=> OpenedIn(i, from, Voices, Statics)
      BY <1>4, <2>4
    <2>6. played[p].at = i /\ (played[p].audible <=> Opened(i))
      BY <2>2, <2>5 DEF IsFrame
    <2>7. played[p].audible \in BOOLEAN /\ Opened(i) \in BOOLEAN
      BY <2>3 DEF Rendered, Opened
    <2>8. played[p].audible = Opened(i)
      <3> DEFINE x == played[p].audible
                 y == Opened(i)
      <3>1. x \in BOOLEAN /\ y \in BOOLEAN /\ (x <=> y)
        BY <2>6, <2>7
      <3> HIDE DEF x, y
      <3>2. ASSUME x PROVE x = y
        <4>1. x = TRUE /\ y = TRUE
          BY <3>1, <3>2
        <4> QED
          BY <4>1
      <3>3. ASSUME ~x PROVE x = y
        <4>1. x = FALSE /\ y = FALSE
          BY <3>1, <3>3
        <4> QED
          BY <4>1
      <3>4. x = y
        BY <3>2, <3>3
      <3> QED
        BY <3>4 DEF x, y
    <2> QED
      BY <2>6, <2>8 DEF i
  <1>6. ASSUME main.pc = "read"
        PROVE  Len(played) + Min({Lookahead, Now + 1 - from}) = Now + 1 - from
    <2> DEFINE n == Len(played)
               k == Len(live.delayed)
               t == Now + 1 - from
    <2>1. Listens /\ ~Records
      BY <1>6 DEF Listens, Records
    <2>2. IsLate(live, played) /\ Through = Now
      BY <2>1 DEF SquelchInv, PlaceIsRight, SoundIsRight
    <2>3. k = IF n + k < Lookahead THEN n + k ELSE Lookahead
      BY <2>2 DEF IsLate
    <2>4. n \in Nat /\ k \in Nat /\ from + n + k - 1 = Now
      <3>1. n \in Nat /\ k \in Nat
        BY <1>2
      <3> QED
        BY <1>3, <2>2, <3>1
    <2> HIDE DEF n, k
    <2>5. t = n + k /\ t \in Nat /\ Lookahead \in Nat
      BY <1>2, <2>4, DetectorAssumption
    <2> HIDE DEF t
    <2>6. Min({Lookahead, t}) = k
      <3>1. k \in {Lookahead, t} /\ {Lookahead, t} \in SUBSET Nat
            /\ \A z \in {Lookahead, t} : k <= z
        BY <2>3, <2>4, <2>5
      <3> DEFINE S == {Lookahead, t}
      <3> HIDE DEF S
      <3>2. \A z \in S : (\A w \in S : z <= w) => z = k
        BY <2>4, <3>1 DEF S
      <3>3. Min(S) = k
        BY <3>1, <3>2 DEF Min, S
      <3> QED
        BY <3>3 DEF S
    <2>7. n + k = t
      BY <2>5
    <2> QED
      BY <2>6, <2>7 DEF n, t
  <1> QED
    BY <1>5, <1>6 DEF LiveFeedIsRight

\* Clips are whole runs of frames, loud at both ends, within the limits, never two of
\* one moment and without a long pause, speech of the length of a clip is heard in
\* part, and the live feed lets through every frame it should, once and in order.
THEOREM ActivityRight == CaptureSpec => []ActivityIsRight
  <1>1. Init => CaptureInv
    BY SquelchInvInit DEF CaptureInv, Init
  <1>2. CaptureInv /\ [CaptureNext]_vars => CaptureInv'
    BY CaptureInvStep
  <1>3. CaptureInv => ActivityIsRight
    BY ClipsMatch, LiveFeedIs DEF CaptureInv, ActivityIsRight
  <1> QED
    BY <1>1, <1>2, <1>3, PTL DEF CaptureSpec

-----------------------------------------------------------------------------
(* The recorder and the upload worker.                                      *)

\* Numbers of frames that whole segments have.
Whole(n) == \E q \in Nat : n = q * SegmentFrames

\* Sums of whole segments, and the frames that begin none.
LEMMA WholeIs ==
    /\ Whole(0)
    /\ \A n \in Nat : Whole(n) => Whole(n + SegmentFrames)
    /\ \A n \in Nat : Whole(n) =>
          \A y \in 1 .. SegmentFrames - 1 : (n + y) % SegmentFrames # 0
  <1> DEFINE N == SegmentFrames
  <1>1. N \in Nat \ {0}
    BY CaptureAssumption
  <1> HIDE DEF N
  <1>2. 0 = 0 * N
    BY <1>1
  <1>3. ASSUME NEW n \in Nat, NEW q \in Nat, n = q * N
        PROVE  /\ q + 1 \in Nat /\ n + N = (q + 1) * N
               /\ \A y \in 1 .. N - 1 : (n + y) % N # 0
    <2>1. n + N = (q + 1) * N
      BY <1>1, <1>3
    <2>2. ASSUME NEW y \in 1 .. N - 1 PROVE (n + y) % N # 0
      BY <1>1, <1>3, <2>2
    <2> QED
      BY <2>1, <2>2
  <1> QED
    BY <1>2, <1>3 DEF Whole, N

Fates     == {"registered", "uploaded", "failed", "refused"}
WorkerPcs == {"idle", "upload", "audio", "metadata", "done"}

SegmentTypes ==
    /\ from \in 1 .. Now + 1
    /\ segment \in 0 .. MaxFrames
    /\ files \in [1 .. MaxFrames -> FileStates]
    /\ queue \in Seq(0 .. MaxFrames) /\ Len(queue) <= QueueSize
    /\ worker \in [pc : WorkerPcs, seg : 0 .. MaxFrames]
    /\ worker.pc \in {"upload", "audio", "metadata"} => worker.seg # 0
    /\ fate \in [1 .. MaxFrames -> SUBSET Fates]

\* The main thread reads on, or closes a segment.
Reads   == main.pc \in {"read", "listen", "clip", "upload"} /\ ~main.ended
Closing == main.pc \in {"close", "describe", "hand"}

\* Segments begin at whole segments from the first frame, and are closed at their end.
RecorderIsRight ==
    /\ segment # 0 => recording /\ segment \in from .. Now
    /\ Closing => segment # 0
    /\ main.pc \in {"describe", "hand"} => files[segment] # "tmp"
    /\ recording /\ (Reads \/ (Closing /\ ~main.ended)) =>
          IF segment = 0 THEN Whole(Now + 1 - from)
          ELSE /\ Whole(segment - from)
               /\ IF Closing THEN Now + 1 - segment = SegmentFrames
                  ELSE Now + 1 - segment < SegmentFrames
    /\ main.ended /\ main.pc \in {"flush", "clip", "upload", "stop", "join"} => segment = 0
    /\ main.pc = "down" /\ main.exit = "clean" => segment = 0

\* The stop mark is the last the worker takes.
StopIsLast ==
    /\ main.pc \notin {"join", "down"} =>
          worker.pc # "done" /\ \A p \in 1 .. Len(queue) : queue[p] # Stop
    /\ main.pc = "join" =>
          IF worker.pc = "done" THEN Len(queue) = 0
          ELSE /\ Len(queue) > 0 /\ queue[Len(queue)] = Stop
               /\ \A p \in 1 .. Len(queue) - 1 : queue[p] # Stop
    /\ main.pc = "down" /\ main.exit = "clean" => worker.pc = "done" /\ Len(queue) = 0

\* A segment the worker has, or had.
Handed(s) ==
    \/ \E p \in 1 .. Len(queue) : queue[p] = s
    \/ worker.pc = "upload" /\ worker.seg = s
    \/ fate[s] # {}

\* The process did not fail, and was not killed.
Sound ==
    /\ main.pc \in {"stop", "join"} => main.ended
    /\ main.pc = "down" => main.exit = "clean"

DealtWith(s) == s = segment \/ (Handed(s) /\ files[s] # "tmp")

AllDealtWith ==
    recording /\ Sound =>
        \A s \in from .. Now : (s - from) % SegmentFrames = 0 => DealtWith(s)

SegmentsInv == SegmentTypes /\ RecorderIsRight /\ StopIsLast /\ AllDealtWith

\* The invariant of the segments holds in the first states.
LEMMA SegmentsInvInit == Init => SegmentsInv
  <1> SUFFICES ASSUME Init PROVE SegmentsInv
    OBVIOUS
  <1> DEFINE none == <<>>
  <1>1. \A S : none \in Seq(S)
    BY EmptyIs
  <1>2. Len(none) = 0
    BY EmptyIs
  <1>3. /\ heard = none /\ from = 1 /\ main = [pc |-> "read", ended |-> FALSE, exit |-> "none"]
        /\ segment = 0 /\ files = [s \in 1 .. MaxFrames |-> "none"]
        /\ queue = none /\ worker = [pc |-> "idle", seg |-> 0]
        /\ fate = [s \in 1 .. MaxFrames |-> {}]
    BY DEF Init
  <1> HIDE DEF none
  <1>4. Now = 0 /\ MaxFrames \in Nat /\ QueueSize \in Nat
    BY <1>2, <1>3, CaptureAssumption DEF Now
  <1>5. SegmentTypes
    BY <1>1, <1>2, <1>3, <1>4 DEF SegmentTypes, FileStates, WorkerPcs
  <1>6. RecorderIsRight
    <2>1. Now + 1 - from = 0
      BY <1>3, <1>4
    <2> QED
      BY <1>3, <2>1, WholeIs DEF RecorderIsRight, Closing
  <1>7. StopIsLast
    BY <1>2, <1>3 DEF StopIsLast
  <1>8. AllDealtWith
    BY <1>3, <1>4 DEF AllDealtWith
  <1> QED
    BY <1>5, <1>6, <1>7, <1>8 DEF SegmentsInv

\* What the squelches' invariant gives.
LEMMA MainFacts ==
    ASSUME CaptureInv
    PROVE  /\ recording \in BOOLEAN /\ heard \in Seq(Kinds)
           /\ Now \in Nat /\ Now <= MaxFrames
           /\ main \in [pc : Pcs, ended : BOOLEAN, exit : Exits]
           /\ main.pc \in {"read", "listen"} => ~main.ended
           /\ main.pc = "flush" => main.ended
  <1>1. SquelchInv /\ recording \in BOOLEAN
    BY DEF CaptureInv
  <1>2. ControlIsRight
    BY <1>1 DEF SquelchInv
  <1>3. Now \in Nat
    BY <1>1, Facts
  <1> QED
    BY <1>1, <1>2, <1>3 DEF ControlIsRight, Exits

\* A step of the main thread that leaves the recorder and the worker alone.
LEMMA MainMoves ==
    ASSUME CaptureInv, SegmentsInv, UNCHANGED <<recording, heard, from, recorder, thread>>,
           NEW pc \in Pcs, NEW ended \in BOOLEAN, NEW exit \in Exits,
           main'.pc = pc, main'.ended = ended, main'.exit = exit,
           \/ main.pc = "read" /\ pc = (IF segment = 0 THEN "flush" ELSE "close") /\ ended
           \/ main.pc = "listen" /\ pc \in {"read", "clip"} /\ ~ended
           \/ main.pc = "flush" /\ pc \in {"stop", "clip"} /\ ended
           \/ /\ main.pc \in {"clip", "upload"} /\ ended = main.ended
              /\ pc = "upload" \/ pc = (IF ended THEN "stop" ELSE "read")
           \/ main.pc \in {"upload", "listen"} /\ pc = "stop" /\ ~ended
           \/ pc = "down" /\ exit = "killed"
    PROVE  SegmentsInv'
  <1>1. /\ recording' = recording /\ heard' = heard /\ from' = from /\ segment' = segment
        /\ files' = files /\ queue' = queue /\ worker' = worker /\ fate' = fate /\ Now' = Now
    BY DEF recorder, thread, Now
  <1>2. /\ main.pc \in {"read", "listen"} => ~main.ended
        /\ main.pc = "flush" => main.ended
        /\ main.pc \in Pcs /\ main.ended \in BOOLEAN
    BY MainFacts
  <1>3. SegmentTypes /\ RecorderIsRight /\ StopIsLast /\ AllDealtWith
    BY DEF SegmentsInv
  <1>4. SegmentTypes'
    BY <1>1, <1>3 DEF SegmentTypes
  <1>5. RecorderIsRight'
    <2>1. (segment # 0 => recording /\ segment \in from .. Now)'
      BY <1>1, <1>3 DEF RecorderIsRight
    <2>2. (Closing => segment # 0)'
      BY <1>1 DEF Closing
    <2>3. (main.pc \in {"describe", "hand"} => files[segment] # "tmp")'
      OBVIOUS
    <2>4. (Reads \/ (Closing /\ ~main.ended))' => Reads /\ ~Closing /\ ~Closing'
      BY <1>2 DEF Reads, Closing
    <2>5. (recording /\ (Reads \/ (Closing /\ ~main.ended)) =>
              IF segment = 0 THEN Whole(Now + 1 - from)
              ELSE /\ Whole(segment - from)
                   /\ IF Closing THEN Now + 1 - segment = SegmentFrames
                      ELSE Now + 1 - segment < SegmentFrames)'
      BY <1>1, <1>3, <2>4 DEF RecorderIsRight
    <2>6. (main.ended /\ main.pc \in {"flush", "clip", "upload", "stop", "join"}
              => segment = 0)'
      BY <1>1, <1>2, <1>3 DEF RecorderIsRight
    <2>7. (main.pc = "down" /\ main.exit = "clean" => segment = 0)'
      OBVIOUS
    <2> QED
      BY <2>1, <2>2, <2>3, <2>5, <2>6, <2>7 DEF RecorderIsRight
  <1>6. StopIsLast'
    BY <1>1, <1>3 DEF StopIsLast
  <1>7. AllDealtWith'
    <2>1. Sound' => Sound
      BY <1>2 DEF Sound
    <2> QED
      BY <1>1, <1>3, <2>1 DEF AllDealtWith, DealtWith, Handed
  <1> QED
    BY <1>4, <1>5, <1>6, <1>7 DEF SegmentsInv

\* What is dealt with stays so: the stream stands still.
LEMMA DealtWithStays ==
    ASSUME AllDealtWith, UNCHANGED <<recording, heard, from, segment>>, Sound' => Sound,
           \A s \in from .. Now : Handed(s) => Handed(s)',
           \A s \in from .. Now : files[s] # "tmp" => files'[s] # "tmp"
    PROVE  AllDealtWith'
  <1>1. recording' = recording /\ from' = from /\ segment' = segment /\ Now' = Now
    BY DEF Now
  <1>2. ASSUME NEW s \in from .. Now, DealtWith(s) PROVE DealtWith(s)'
    BY <1>1, <1>2 DEF DealtWith
  <1> QED
    BY <1>1, <1>2 DEF AllDealtWith

\* The recorder stands still when the main thread does.
LEMMA RecorderStays ==
    ASSUME RecorderIsRight, UNCHANGED <<recording, heard, from, segment, main>>,
           segment # 0 /\ files[segment] # "tmp" => files'[segment] # "tmp"
    PROVE  RecorderIsRight'
  <1>1. /\ recording' = recording /\ from' = from /\ segment' = segment /\ main' = main
        /\ Now' = Now
    BY DEF Now
  <1>2. (Reads' <=> Reads) /\ (Closing' <=> Closing)
    BY <1>1 DEF Reads, Closing
  <1>3. (main.pc \in {"describe", "hand"} => files[segment] # "tmp")'
    BY <1>1 DEF RecorderIsRight, Closing
  <1> QED
    BY <1>1, <1>2, <1>3 DEF RecorderIsRight

\* A frame is recorded: it opens a segment when it should, and fills it when it does.
LEMMA ReadSegment ==
    ASSUME CaptureInv, SegmentsInv, NEW kind, ReadFrame(kind), UNCHANGED recording
    PROVE  SegmentsInv'
  <1> DEFINE N == SegmentFrames
             first == IF recording /\ segment = 0 THEN Now + 1 ELSE segment
             full == FillsSegment
  <1>1. /\ main.pc = "read" /\ Now < MaxFrames /\ heard' = Append(heard, kind)
        /\ from' = from /\ queue' = queue /\ worker' = worker /\ fate' = fate
        /\ main' = [main EXCEPT !.pc = IF full THEN "close" ELSE "listen"]
        /\ segment' = first
        /\ files' = IF recording /\ segment = 0 THEN [files EXCEPT ![Now + 1] = "tmp"] ELSE files
    BY DEF ReadFrame, Goto, thread, recorder
  <1>2. /\ recording \in BOOLEAN /\ heard \in Seq(Kinds) /\ Now \in Nat /\ MaxFrames \in Nat
        /\ main \in [pc : Pcs, ended : BOOLEAN, exit : Exits] /\ ~main.ended
    BY <1>1, MainFacts, CaptureAssumption
  <1>3. SegmentTypes /\ RecorderIsRight /\ StopIsLast /\ AllDealtWith
    BY DEF SegmentsInv
  <1>4. Now' = Now + 1 /\ N \in Nat \ {0} /\ recording' = recording
    BY <1>1, <1>2, CaptureAssumption DEF Now
  <1>5. main'.pc = (IF full THEN "close" ELSE "listen") /\ ~main'.ended /\ main'.exit = main.exit
    BY <1>1, <1>2
  <1>6. Reads /\ ~Closing
    BY <1>1, <1>2 DEF Reads, Closing
  <1>7. /\ from \in 1 .. Now + 1 /\ segment \in 0 .. MaxFrames
        /\ files \in [1 .. MaxFrames -> FileStates]
    BY <1>3 DEF SegmentTypes
  <1>8. first \in 0 .. MaxFrames /\ (recording <=> first # 0)
        /\ (first # 0 => first \in from .. Now + 1)
    BY <1>1, <1>2, <1>3, <1>7 DEF RecorderIsRight
  <1>9. recording => Whole(first - from) /\ (Now + 2) - first <= N /\ first \in Nat
                     /\ (full <=> (Now + 2) - first = N)
    <2> SUFFICES ASSUME recording PROVE Whole(first - from) /\ (Now + 2) - first <= N
                     /\ first \in Nat
                     /\ (full <=> (Now + 2) - first = N)
      OBVIOUS
    <2>1. FirstFrame = first
      BY DEF FirstFrame
    <2>2. CASE segment = 0
      <3>1. first = Now + 1 /\ Whole(Now + 1 - from)
        BY <1>3, <1>6, <2>2 DEF RecorderIsRight
      <3> HIDE DEF first
      <3>2. (Now + 2) - first = 1 /\ first \in Nat /\ 1 <= N
        BY <1>2, <1>4, <3>1
      <3>3. full <=> 1 >= N
        BY <1>2, <1>4, <2>1, <3>2 DEF FillsSegment, full
      <3>4. full <=> (Now + 2) - first = N
        BY <1>4, <3>2, <3>3
      <3> QED
        BY <1>2, <1>7, <3>1, <3>2, <3>4
    <2>3. CASE segment # 0
      <3>1. first = segment /\ Whole(segment - from) /\ Now + 1 - segment < N
        BY <1>3, <1>6, <2>3 DEF RecorderIsRight
      <3>2. segment \in Nat
        BY <1>7
      <3> HIDE DEF first
      <3> QED
        BY <1>2, <1>4, <2>1, <3>1, <3>2 DEF FillsSegment
    <2> QED
      BY <2>2, <2>3
  <1> HIDE DEF full, first
  <1>10. SegmentTypes'
    <2>1. from' \in 1 .. Now' + 1
      BY <1>1, <1>2, <1>4, <1>7
    <2>2. files' \in [1 .. MaxFrames -> FileStates]
      BY <1>1, <1>2, <1>7 DEF FileStates
    <2> QED
      BY <1>1, <1>3, <1>8, <2>1, <2>2 DEF SegmentTypes
  <1>11. RecorderIsRight'
    <2>1. (segment # 0 => recording /\ segment \in from .. Now)'
      BY <1>1, <1>4, <1>8
    <2>2. Closing' <=> full
      BY <1>5 DEF Closing
    <2>3. (Closing => segment # 0)'
      <3>1. full => recording
        BY DEF full, FillsSegment
      <3> QED
        BY <1>1, <1>8, <2>2, <3>1
    <2>4. main'.pc \notin {"describe", "hand", "flush", "clip", "upload", "stop", "join", "down"}
      BY <1>5
    <2>5. (recording /\ (Reads \/ (Closing /\ ~main.ended)) =>
              IF segment = 0 THEN Whole(Now + 1 - from)
              ELSE /\ Whole(segment - from)
                   /\ IF Closing THEN Now + 1 - segment = SegmentFrames
                      ELSE Now + 1 - segment < SegmentFrames)'
      <3> SUFFICES ASSUME recording
                   PROVE  /\ segment' # 0 /\ Whole(segment' - from')
                          /\ IF Closing' THEN Now' + 1 - segment' = N
                             ELSE Now' + 1 - segment' < N
        BY <1>4
      <3>1. (Now + 2) - first = Now' + 1 - segment'
        BY <1>1, <1>2, <1>4, <1>9
      <3>2. first \in Nat /\ N \in Nat
        BY <1>4, <1>9
      <3> QED
        BY <1>1, <1>2, <1>8, <1>9, <2>2, <3>1, <3>2
    <2> QED
      BY <2>1, <2>3, <2>4, <2>5 DEF RecorderIsRight
  <1>12. StopIsLast'
    BY <1>1, <1>3, <1>5 DEF StopIsLast
  <1>13. AllDealtWith'
    <2> SUFFICES ASSUME recording, NEW s \in from .. Now + 1, (s - from) % N = 0
                 PROVE  DealtWith(s)'
      BY <1>1, <1>4 DEF AllDealtWith
    <2>1. CASE s = Now + 1
      <3>1. segment = 0 => first = Now + 1
        BY DEF first
      <3>2. ASSUME segment # 0 PROVE FALSE
        <4>1. first = segment
          BY <3>2 DEF first
        <4>2. Whole(segment - from) /\ segment \in from .. Now /\ Now + 1 - segment < N
          BY <1>3, <1>6, <3>2 DEF RecorderIsRight
        <4>3. segment - from \in Nat /\ Now + 1 - segment \in 1 .. N - 1
              /\ (segment - from) + (Now + 1 - segment) = s - from
          BY <1>2, <1>4, <1>7, <2>1, <4>2
        <4> QED
          BY <4>2, <4>3, WholeIs
      <3> QED
        BY <1>1, <2>1, <3>1, <3>2 DEF DealtWith
    <2>2. CASE s # Now + 1
      <3>1. s \in from .. Now /\ s \in 1 .. MaxFrames
        BY <1>1, <1>2, <1>7, <2>2
      <3>2. Sound
        BY <1>1 DEF Sound
      <3>3. DealtWith(s)
        BY <1>3, <3>1, <3>2 DEF AllDealtWith
      <3>4. CASE s = segment
        <4>1. segment # 0
          BY <3>1, <3>4
        <4> QED
          BY <1>1, <3>4, <4>1 DEF DealtWith, first
      <3>5. CASE Handed(s) /\ files[s] # "tmp"
        <4>1. Handed(s)'
          BY <1>1, <3>5 DEF Handed
        <4>2. files'[s] # "tmp"
          BY <1>1, <1>7, <2>2, <3>1, <3>5
        <4> QED
          BY <4>1, <4>2 DEF DealtWith
      <3> QED
        BY <3>3, <3>4, <3>5 DEF DealtWith
    <2> QED
      BY <2>1, <2>2
  <1> QED
    BY <1>10, <1>11, <1>12, <1>13 DEF SegmentsInv

\* The files of a segment get their names.
LEMMA NameStep ==
    ASSUME CaptureInv, SegmentsInv, NameAudio \/ NameMetadata, UNCHANGED recording
    PROVE  SegmentsInv'
  <1> DEFINE how == IF NameAudio THEN "audio" ELSE "complete"
             pc == IF NameAudio THEN "describe" ELSE "hand"
  <1>1. /\ main.pc \in {"close", "describe"} /\ heard' = heard /\ from' = from
        /\ segment' = segment /\ queue' = queue /\ worker' = worker /\ fate' = fate
        /\ files' = [files EXCEPT ![segment] = how] /\ main' = [main EXCEPT !.pc = pc]
    BY DEF NameAudio, NameMetadata, Goto, thread
  <1>2. how \in {"audio", "complete"} /\ pc \in {"describe", "hand"}
    OBVIOUS
  <1> HIDE DEF how, pc
  <1>3. /\ main \in [pc : Pcs, ended : BOOLEAN, exit : Exits] /\ Now' = Now /\ recording' = recording
    BY <1>1, MainFacts DEF Now
  <1>4. SegmentTypes /\ RecorderIsRight /\ StopIsLast /\ AllDealtWith
    BY DEF SegmentsInv
  <1>5. main'.pc = pc /\ main'.ended = main.ended /\ main'.exit = main.exit
    BY <1>1, <1>3
  <1>6. Closing /\ Closing' /\ ~Reads /\ ~Reads'
    BY <1>1, <1>2, <1>5 DEF Closing, Reads
  <1>7. segment # 0 /\ segment \in 0 .. MaxFrames /\ files \in [1 .. MaxFrames -> FileStates]
    BY <1>4, <1>6 DEF RecorderIsRight, SegmentTypes
  <1>8. segment \in 1 .. MaxFrames
    BY <1>7, CaptureAssumption
  <1>9. /\ files' \in [1 .. MaxFrames -> FileStates] /\ files'[segment] # "tmp"
        /\ \A s \in 1 .. MaxFrames : files[s] # "tmp" => files'[s] # "tmp"
    BY <1>1, <1>2, <1>7, <1>8 DEF FileStates
  <1>10. SegmentTypes'
    BY <1>1, <1>3, <1>4, <1>9 DEF SegmentTypes
  <1>11. RecorderIsRight'
    BY <1>1, <1>2, <1>3, <1>4, <1>5, <1>6, <1>7, <1>9 DEF RecorderIsRight
  <1>12. StopIsLast'
    BY <1>1, <1>2, <1>4, <1>5 DEF StopIsLast
  <1>13. AllDealtWith'
    <2>1. \A s \in from .. Now : s \in 1 .. MaxFrames
      BY <1>4, MainFacts, CaptureAssumption DEF SegmentTypes
    <2>2. \A s \in from .. Now : Handed(s) => Handed(s)'
      BY <1>1 DEF Handed
    <2>3. Sound
      BY <1>1 DEF Sound
    <2> QED
      BY <1>1, <1>3, <1>4, <1>9, <2>1, <2>2, <2>3, DealtWithStays
  <1> QED
    BY <1>10, <1>11, <1>12, <1>13 DEF SegmentsInv

\* A segment is offered to the worker, and old ones expire.
LEMMA HandOverStep ==
    ASSUME CaptureInv, SegmentsInv, HandOver, UNCHANGED recording
    PROVE  SegmentsInv'
  <1> DEFINE pc == IF main.ended THEN "flush" ELSE "listen"
             room == Len(queue) < QueueSize
  <1>1. /\ main.pc = "hand" /\ heard' = heard /\ from' = from /\ segment' = 0
        /\ worker' = worker /\ main' = [main EXCEPT !.pc = pc]
        /\ files' = [s \in DOMAIN files |-> IF Expired(s) THEN "none" ELSE files[s]]
        /\ IF room THEN queue' = Append(queue, segment) /\ fate' = fate
           ELSE fate' = [fate EXCEPT ![segment] = @ \cup {"refused"}] /\ queue' = queue
    BY DEF HandOver, Goto, Enqueue, PruneExpired
  <1>2. /\ main \in [pc : Pcs, ended : BOOLEAN, exit : Exits] /\ Now' = Now /\ recording' = recording
        /\ Now \in Nat /\ Now <= MaxFrames /\ MaxFrames \in Nat
    BY <1>1, MainFacts, CaptureAssumption DEF Now
  <1>3. SegmentTypes /\ RecorderIsRight /\ StopIsLast /\ AllDealtWith
    BY DEF SegmentsInv
  <1>4. main'.pc = pc /\ main'.ended = main.ended /\ main'.exit = main.exit
    BY <1>1, <1>2
  <1>5. pc \in {"flush", "listen"} /\ (main.ended <=> pc = "flush")
    OBVIOUS
  <1> HIDE DEF pc
  <1>6. Closing /\ ~Closing'
    BY <1>1, <1>4, <1>5 DEF Closing
  <1>7. /\ segment # 0 /\ segment \in from .. Now /\ files[segment] # "tmp" /\ recording
        /\ segment \in 0 .. MaxFrames /\ files \in [1 .. MaxFrames -> FileStates]
        /\ queue \in Seq(0 .. MaxFrames) /\ Len(queue) <= QueueSize
        /\ fate \in [1 .. MaxFrames -> SUBSET Fates] /\ from \in 1 .. Now + 1
    BY <1>1, <1>3, <1>6 DEF RecorderIsRight, SegmentTypes
  <1>8. segment \in 1 .. MaxFrames
    BY <1>2, <1>7
  <1>9. /\ files' \in [1 .. MaxFrames -> FileStates]
        /\ \A s \in 1 .. MaxFrames : files[s] # "tmp" => files'[s] # "tmp"
    <2>1. \A s \in 1 .. MaxFrames :
             files'[s] = IF Expired(s) THEN "none" ELSE files[s]
      BY <1>1, <1>7
    <2> QED
      BY <1>1, <1>7, <2>1 DEF FileStates
  <1> DEFINE n == Len(queue)
  <1>10. worker.pc # "done" /\ \A p \in 1 .. n : queue[p] # Stop
    BY <1>1, <1>3 DEF StopIsLast
  <1>11. /\ SegmentTypes' /\ StopIsLast'
         /\ \A s \in 1 .. MaxFrames : Handed(s) => Handed(s)'
         /\ \A s : s = segment => Handed(s)'
    <2>1. CASE room
      <3>1. queue' = Append(queue, segment) /\ fate' = fate /\ worker' = worker
        BY <1>1, <2>1
      <3>2. /\ queue' \in Seq(0 .. MaxFrames) /\ Len(queue') = n + 1 /\ queue'[n + 1] = segment
            /\ \A p \in 1 .. n : queue'[p] = queue[p]
        BY <1>7, <3>1
      <3>3. n \in Nat /\ n < QueueSize /\ QueueSize \in Nat
        BY <1>7, <2>1, CaptureAssumption
      <3> HIDE DEF n, room
      <3>4. SegmentTypes'
        BY <1>1, <1>2, <1>3, <1>9, <3>1, <3>2, <3>3 DEF SegmentTypes
      <3>5. \A p \in 1 .. n + 1 : queue'[p] # Stop
        BY <1>7, <1>10, <3>2, <3>3 DEF Stop
      <3>6. StopIsLast'
        BY <1>4, <1>5, <1>10, <3>1, <3>2, <3>5 DEF StopIsLast
      <3>7. \A p \in 1 .. n : p \in 1 .. n + 1
        BY <3>3
      <3>8. \A s : Handed(s) => Handed(s)'
        BY <3>1, <3>2, <3>7 DEF Handed, n
      <3>9. n + 1 \in 1 .. n + 1
        BY <3>3
      <3>10. \A s : s = segment => Handed(s)'
        BY <3>2, <3>9 DEF Handed
      <3> QED
        BY <3>4, <3>6, <3>8, <3>10
    <2>2. CASE ~room
      <3>1. /\ fate' = [fate EXCEPT ![segment] = @ \cup {"refused"}]
            /\ queue' = queue /\ worker' = worker
        BY <1>1, <2>2
      <3>2. /\ fate' \in [1 .. MaxFrames -> SUBSET Fates] /\ fate'[segment] # {}
            /\ \A s \in 1 .. MaxFrames : fate[s] \subseteq fate'[s]
        BY <1>7, <1>8, <3>1 DEF Fates
      <3>3. SegmentTypes'
        BY <1>1, <1>2, <1>3, <1>9, <3>1, <3>2 DEF SegmentTypes
      <3>4. StopIsLast'
        BY <1>4, <1>5, <1>10, <3>1 DEF StopIsLast
      <3>5. \A s \in 1 .. MaxFrames : Handed(s) => Handed(s)'
        BY <3>1, <3>2 DEF Handed
      <3>6. \A s : s = segment => Handed(s)'
        BY <3>2 DEF Handed
      <3> QED
        BY <3>3, <3>4, <3>5, <3>6
    <2> QED
      BY <2>1, <2>2
  <1> HIDE DEF n, room
  <1>12. RecorderIsRight'
    <2>1. main'.ended \/ main'.pc = "listen"
      BY <1>4, <1>5
    <2>2. ~main.ended => Whole(Now' + 1 - from')
      <3> SUFFICES ASSUME ~main.ended PROVE Whole(Now + 1 - from)
        BY <1>1, <1>2
      <3>1. Whole(segment - from) /\ Now + 1 - segment = SegmentFrames
        BY <1>3, <1>6, <1>7 DEF RecorderIsRight
      <3>2. segment - from \in Nat /\ (segment - from) + SegmentFrames = Now + 1 - from
        BY <1>2, <1>7, <3>1, CaptureAssumption
      <3> QED
        BY <3>1, <3>2, WholeIs
    <2> QED
      BY <1>1, <1>2, <1>4, <1>5, <1>6, <2>2 DEF RecorderIsRight, Reads
  <1>13. AllDealtWith'
    <2> SUFFICES ASSUME NEW s \in from .. Now, (s - from) % SegmentFrames = 0
                 PROVE  DealtWith(s)'
      BY <1>1, <1>2 DEF AllDealtWith
    <2>1. s \in 1 .. MaxFrames
      BY <1>2, <1>7
    <2>2. Sound
      BY <1>1 DEF Sound
    <2>3. DealtWith(s)
      BY <1>3, <1>7, <2>2 DEF AllDealtWith
    <2>4. Handed(s)' /\ files'[s] # "tmp"
      BY <1>7, <1>9, <1>11, <2>1, <2>3 DEF DealtWith
    <2> QED
      BY <2>4 DEF DealtWith
  <1> QED
    BY <1>11, <1>12, <1>13 DEF SegmentsInv

\* The stop mark goes behind the segments in the queue.
LEMMA StopStep ==
    ASSUME CaptureInv, SegmentsInv, StopWorker, UNCHANGED recording
    PROVE  SegmentsInv'
  <1> DEFINE n == Len(queue)
  <1>1. /\ main.pc = "stop" /\ n < QueueSize /\ queue' = Append(queue, Stop)
        /\ heard' = heard /\ from' = from /\ segment' = segment /\ files' = files
        /\ worker' = worker /\ fate' = fate /\ main' = [main EXCEPT !.pc = "join"]
    BY DEF StopWorker, Goto, recorder
  <1>2. /\ main \in [pc : Pcs, ended : BOOLEAN, exit : Exits] /\ Now' = Now /\ recording' = recording
        /\ MaxFrames \in Nat /\ QueueSize \in Nat
    BY <1>1, MainFacts, CaptureAssumption DEF Now
  <1>3. SegmentTypes /\ RecorderIsRight /\ StopIsLast /\ AllDealtWith
    BY DEF SegmentsInv
  <1>4. main'.pc = "join" /\ main'.ended = main.ended /\ main'.exit = main.exit
    BY <1>1, <1>2
  <1>5. queue \in Seq(0 .. MaxFrames) /\ n \in Nat
    BY <1>3 DEF SegmentTypes
  <1>6. Stop = 0 /\ Stop \in 0 .. MaxFrames
    BY <1>2 DEF Stop
  <1>7. /\ queue' \in Seq(0 .. MaxFrames) /\ Len(queue') = n + 1 /\ queue'[n + 1] = Stop
        /\ \A p \in 1 .. n : queue'[p] = queue[p]
    BY <1>1, <1>5, <1>6
  <1>8. worker.pc # "done" /\ \A p \in 1 .. n : queue[p] # Stop
    BY <1>1, <1>3 DEF StopIsLast
  <1> HIDE DEF n
  <1>9. SegmentTypes'
    BY <1>1, <1>2, <1>3, <1>5, <1>7 DEF SegmentTypes
  <1>10. RecorderIsRight'
    BY <1>1, <1>2, <1>3, <1>4 DEF RecorderIsRight, Reads, Closing
  <1>11. StopIsLast'
    <2>1. n + 1 > 0 /\ (n + 1) - 1 = n
      BY <1>5
    <2> QED
      BY <1>1, <1>4, <1>7, <1>8, <2>1 DEF StopIsLast
  <1>12. AllDealtWith'
    <2>1. \A p \in 1 .. n : p \in 1 .. n + 1
      BY <1>5
    <2>2. \A s : Handed(s) => Handed(s)'
      BY <1>1, <1>7, <2>1 DEF Handed, n
    <2>3. Sound' => Sound
      BY <1>1, <1>4 DEF Sound
    <2> QED
      BY <1>1, <1>2, <1>3, <2>2, <2>3, DealtWithStays
  <1> QED
    BY <1>9, <1>10, <1>11, <1>12 DEF SegmentsInv

\* The process leaves when the worker has taken the stop mark.
LEMMA ExitStep ==
    ASSUME CaptureInv, SegmentsInv, Exit, UNCHANGED recording
    PROVE  SegmentsInv'
  <1> DEFINE how == IF main.ended THEN "clean" ELSE "failed"
  <1>1. /\ main.pc = "join" /\ worker.pc = "done"
        /\ heard' = heard /\ from' = from /\ segment' = segment
        /\ queue' = queue /\ worker' = worker /\ fate' = fate
        /\ main' = [main EXCEPT !.pc = "down", !.exit = how]
        /\ \/ files' = files
           \/ segment # 0 /\ files' = [files EXCEPT ![segment] = "complete"]
    BY DEF Exit, thread
  <1>2. how = "clean" <=> main.ended
    OBVIOUS
  <1> HIDE DEF how
  <1>3. /\ main \in [pc : Pcs, ended : BOOLEAN, exit : Exits] /\ Now' = Now /\ recording' = recording
        /\ MaxFrames \in Nat /\ Now <= MaxFrames /\ Now \in Nat
    BY <1>1, MainFacts, CaptureAssumption DEF Now
  <1>4. SegmentTypes /\ RecorderIsRight /\ StopIsLast /\ AllDealtWith
    BY DEF SegmentsInv
  <1>5. main'.pc = "down" /\ main'.ended = main.ended /\ main'.exit = how
    BY <1>1, <1>3
  <1>6. /\ segment \in 0 .. MaxFrames /\ files \in [1 .. MaxFrames -> FileStates]
        /\ from \in 1 .. Now + 1
    BY <1>4 DEF SegmentTypes
  <1>7. /\ files' \in [1 .. MaxFrames -> FileStates]
        /\ \A s \in 1 .. MaxFrames : files[s] # "tmp" => files'[s] # "tmp"
    BY <1>1, <1>3, <1>6 DEF FileStates
  <1>8. SegmentTypes'
    BY <1>1, <1>3, <1>4, <1>7 DEF SegmentTypes
  <1>9. RecorderIsRight'
    BY <1>1, <1>2, <1>3, <1>4, <1>5 DEF RecorderIsRight, Reads, Closing
  <1>10. StopIsLast'
    BY <1>1, <1>4, <1>5 DEF StopIsLast
  <1>11. AllDealtWith'
    <2>1. \A s \in from .. Now : s \in 1 .. MaxFrames
      BY <1>3, <1>6
    <2>2. \A s : Handed(s) => Handed(s)'
      BY <1>1 DEF Handed
    <2>3. Sound' => Sound
      BY <1>1, <1>2, <1>5 DEF Sound
    <2> QED
      BY <1>1, <1>3, <1>4, <1>7, <2>1, <2>2, <2>3, DealtWithStays
  <1> QED
    BY <1>8, <1>9, <1>10, <1>11 DEF SegmentsInv

\* A new process has no segment to deal with yet.
LEMMA RestartSegments ==
    ASSUME CaptureInv, SegmentsInv, Restart, UNCHANGED recording
    PROVE  SegmentsInv'
  <1> DEFINE none == <<>>
  <1>1. \A S : none \in Seq(S)
    BY EmptyIs
  <1>2. Len(none) = 0
    BY EmptyIs
  <1>3. /\ Now < MaxFrames /\ from' = Now + 1 /\ segment' = 0 /\ queue' = none
        /\ main' = [pc |-> "read", ended |-> FALSE, exit |-> "none"]
        /\ worker' = [pc |-> "idle", seg |-> 0] /\ files' = files /\ fate' = fate
        /\ heard' = heard
    BY DEF Restart
  <1> HIDE DEF none
  <1>4. Now' = Now /\ Now \in Nat /\ MaxFrames \in Nat /\ QueueSize \in Nat
    BY <1>3, MainFacts, CaptureAssumption DEF Now
  <1>5. SegmentTypes
    BY DEF SegmentsInv
  <1>6. SegmentTypes'
    BY <1>1, <1>2, <1>3, <1>4, <1>5 DEF SegmentTypes, WorkerPcs
  <1>7. RecorderIsRight'
    <2>1. Now' + 1 - from' = 0
      BY <1>3, <1>4
    <2> QED
      BY <1>3, <2>1, WholeIs DEF RecorderIsRight, Closing
  <1>8. StopIsLast'
    BY <1>2, <1>3 DEF StopIsLast
  <1>9. AllDealtWith'
    BY <1>3, <1>4 DEF AllDealtWith
  <1> QED
    BY <1>6, <1>7, <1>8, <1>9 DEF SegmentsInv

\* The worker's steps: they leave the main thread alone.
LEMMA WorkerMoves ==
    ASSUME CaptureInv, SegmentsInv, WorkerStep, UNCHANGED recording
    PROVE  SegmentsInv'
  <1>1. /\ heard' = heard /\ from' = from /\ main' = main /\ segment' = segment
        /\ recording' = recording /\ Now' = Now /\ main.pc # "down"
    BY DEF WorkerStep, Take, UploadSegment, RemoveAudio, RemoveMetadata, Working, recorder, Now
  <1>2. /\ MaxFrames \in Nat /\ Now <= MaxFrames /\ Now \in Nat
    BY MainFacts, CaptureAssumption
  <1>3. SegmentTypes /\ RecorderIsRight /\ StopIsLast /\ AllDealtWith
    BY DEF SegmentsInv
  <1>4. /\ segment \in 0 .. MaxFrames /\ files \in [1 .. MaxFrames -> FileStates]
        /\ from \in 1 .. Now + 1 /\ queue \in Seq(0 .. MaxFrames)
        /\ worker \in [pc : WorkerPcs, seg : 0 .. MaxFrames]
        /\ worker.pc \in {"upload", "audio", "metadata"} => worker.seg # 0
        /\ fate \in [1 .. MaxFrames -> SUBSET Fates]
    BY <1>3 DEF SegmentTypes
  <1>5. Sound' <=> Sound
    BY <1>1 DEF Sound
  <1>6. \A s \in from .. Now : s \in 1 .. MaxFrames
    BY <1>2, <1>4
  <1>7. segment # 0 => segment \in 1 .. MaxFrames
    BY <1>2, <1>4
  <1>8. SUFFICES /\ SegmentTypes' /\ StopIsLast'
                 /\ \A s \in 1 .. MaxFrames : Handed(s) => Handed(s)'
                 /\ \A s \in 1 .. MaxFrames : files[s] # "tmp" => files'[s] # "tmp"
    <2>1. RecorderIsRight'
      BY <1>1, <1>3, <1>7, <1>8, RecorderStays
    <2>2. AllDealtWith'
      BY <1>1, <1>3, <1>5, <1>6, <1>8, DealtWithStays
    <2> QED
      BY <1>8, <2>1, <2>2 DEF SegmentsInv
  <1>9. CASE Take
    <2> DEFINE n == Len(queue)
               h == Head(queue)
    <2>1. /\ worker.pc = "idle" /\ queue # <<>> /\ queue' = Tail(queue)
          /\ worker' = IF h = Stop THEN [pc |-> "done", seg |-> 0]
                       ELSE [pc |-> "upload", seg |-> h]
          /\ files' = files /\ fate' = fate
      BY <1>9 DEF Take, Working, recorder
    <2>0. n \in Nat /\ n > 0 /\ h = queue[1] /\ h \in 0 .. MaxFrames
      <3>1. queue \in Seq(0 .. MaxFrames) /\ queue # <<>>
        BY <1>4, <2>1
      <3>2. n \in Nat /\ n > 0
        BY <3>1, EmptySeq
      <3>3. h = queue[1]
        BY <3>1
      <3>4. queue[1] \in 0 .. MaxFrames
        <4>1. 1 \in 1 .. Len(queue)
          BY <3>2
        <4> QED
          BY <3>1, <4>1, ElementOfSeq
      <3> QED
        BY <3>2, <3>3, <3>4
    <2>2. /\ n \in Nat /\ n > 0 /\ h = queue[1] /\ h \in 0 .. MaxFrames
          /\ Tail(queue) \in Seq(0 .. MaxFrames) /\ Len(Tail(queue)) = n - 1
          /\ \A p \in 1 .. n - 1 : Tail(queue)[p] = queue[p + 1]
      BY <1>4, <2>0, <2>1, HeadTailProperties
    <2>3. n <= QueueSize /\ QueueSize \in Nat /\ 0 \in 0 .. MaxFrames
      BY <1>2, <1>3, CaptureAssumption DEF SegmentTypes
    <2> HIDE DEF n, h
    <2>4. SegmentTypes'
      <3>1. worker' \in [pc : WorkerPcs, seg : 0 .. MaxFrames]
            /\ (worker'.pc \in {"upload", "audio", "metadata"} => worker'.seg # 0)
        BY <2>1, <2>2, <2>3 DEF WorkerPcs, Stop
      <3>2. n - 1 <= QueueSize
        BY <2>2, <2>3
      <3> QED
        BY <1>1, <1>3, <2>1, <2>2, <3>1, <3>2 DEF SegmentTypes
    <2>5. \A s \in 1 .. MaxFrames : Handed(s) => Handed(s)'
      <3> TAKE s \in 1 .. MaxFrames
      <3>1. CASE \E p \in 1 .. n : queue[p] = s
        <4>1. PICK p \in 1 .. n : queue[p] = s
          BY <3>1
        <4>2. CASE p = 1
          <5>1. h = s /\ h # Stop
            BY <2>2, <4>1, <4>2 DEF Stop
          <5>2. worker'.pc = "upload" /\ worker'.seg = s
            BY <2>1, <5>1
          <5> QED
            BY <5>2 DEF Handed
        <4>3. CASE p # 1
          <5>1. p - 1 \in 1 .. n - 1 /\ (p - 1) + 1 = p
            BY <2>2, <4>3
          <5>2. queue'[p - 1] = s
            BY <2>1, <2>2, <4>1, <5>1
          <5> QED
            BY <2>1, <2>2, <5>1, <5>2 DEF Handed
        <4> QED
          BY <4>2, <4>3
      <3>2. CASE fate[s] # {}
        BY <2>1, <3>2 DEF Handed
      <3> QED
        BY <2>1, <3>1, <3>2 DEF Handed, n
    <2>6. StopIsLast'
      <3>1. ASSUME main.pc \notin {"join", "down"}
            PROVE  worker'.pc # "done" /\ \A p \in 1 .. n - 1 : queue'[p] # Stop
        <4>1. \A p \in 1 .. n : queue[p] # Stop
          BY <1>3, <3>1 DEF StopIsLast, n
        <4>2. 1 \in 1 .. n /\ \A p \in 1 .. n - 1 : p + 1 \in 1 .. n
          BY <2>2
        <4> QED
          BY <2>1, <2>2, <4>1, <4>2
      <3>2. ASSUME main.pc = "join"
            PROVE  IF worker'.pc = "done" THEN n - 1 = 0
                   ELSE /\ n - 1 > 0 /\ queue'[n - 1] = Stop
                        /\ \A p \in 1 .. (n - 1) - 1 : queue'[p] # Stop
        <4>1. queue[n] = Stop /\ \A p \in 1 .. n - 1 : queue[p] # Stop
          BY <1>3, <2>1, <3>2 DEF StopIsLast, n
        <4>2. CASE h = Stop
          <5>1. n = 1
            <6>1. ASSUME n # 1 PROVE 1 \in 1 .. n - 1
              BY <2>2, <6>1
            <6>2. queue[1] = Stop
              BY <2>2, <4>2
            <6> QED
              BY <4>1, <6>1, <6>2
          <5> QED
            BY <2>1, <4>2, <5>1
        <4>3. CASE h # Stop
          <5>1. n # 1 /\ n - 1 > 0 /\ n - 1 \in 1 .. n - 1 /\ (n - 1) + 1 = n
            BY <2>2, <4>1, <4>3
          <5>2. queue'[n - 1] = Stop
            BY <2>1, <2>2, <4>1, <5>1
          <5>3. \A p \in 1 .. (n - 1) - 1 : p \in 1 .. n - 1 /\ p + 1 \in 1 .. n - 1
            BY <2>2
          <5>4. \A p \in 1 .. (n - 1) - 1 : queue'[p] # Stop
            BY <2>1, <2>2, <4>1, <5>3
          <5>5. worker'.pc # "done"
            BY <2>1, <4>3
          <5> QED
            BY <5>1, <5>2, <5>4, <5>5
        <4> QED
          BY <4>2, <4>3
      <3>3. Len(queue') = n - 1
        BY <2>1, <2>2
      <3> QED
        BY <1>1, <3>1, <3>2, <3>3 DEF StopIsLast
    <2> QED
      BY <2>1, <2>4, <2>5, <2>6
  <1>10. ASSUME worker.pc = "upload", NEW outcome \in Outcomes(worker.seg), UploadSegment(outcome)
         PROVE  /\ SegmentTypes' /\ StopIsLast'
                /\ \A s \in 1 .. MaxFrames : Handed(s) => Handed(s)'
                /\ \A s \in 1 .. MaxFrames : files[s] # "tmp" => files'[s] # "tmp"
    <2>1. /\ fate' = [fate EXCEPT ![worker.seg] = @ \cup outcome]
          /\ worker' = IF "failed" \in outcome \/ ~DeleteAfterUpload
                       THEN [pc |-> "idle", seg |-> 0] ELSE [worker EXCEPT !.pc = "audio"]
          /\ files' = files /\ queue' = queue
      BY <1>10 DEF UploadSegment, Idle, recorder
    <2>2. outcome \subseteq Fates /\ outcome # {}
      BY <1>10 DEF Outcomes, Fates
    <2>3. worker.seg \in 1 .. MaxFrames
      BY <1>2, <1>4, <1>10
    <2>4. /\ fate' \in [1 .. MaxFrames -> SUBSET Fates] /\ fate'[worker.seg] # {}
          /\ \A s \in 1 .. MaxFrames : fate[s] \subseteq fate'[s]
      BY <1>4, <2>1, <2>2, <2>3
    <2>5. /\ worker' \in [pc : WorkerPcs, seg : 0 .. MaxFrames] /\ worker'.pc # "done"
          /\ worker'.pc \in {"upload", "audio", "metadata"} => worker'.seg # 0
      <3>1. 0 \in 0 .. MaxFrames
        BY <1>2
      <3> QED
        BY <1>4, <1>10, <2>1, <2>3, <3>1 DEF WorkerPcs
    <2>6. SegmentTypes'
      BY <1>1, <1>3, <2>1, <2>4, <2>5 DEF SegmentTypes
    <2>7. StopIsLast'
      BY <1>1, <1>3, <1>10, <2>1, <2>5 DEF StopIsLast
    <2>8. \A s \in 1 .. MaxFrames : Handed(s) => Handed(s)'
      BY <2>1, <2>4 DEF Handed
    <2> QED
      BY <2>1, <2>6, <2>7, <2>8
  <1>11. CASE RemoveAudio \/ RemoveMetadata
    <2> DEFINE how == IF RemoveAudio /\ files[worker.seg] = "complete" THEN "metadata" ELSE "none"
               next == IF RemoveAudio THEN [worker EXCEPT !.pc = "metadata"]
                       ELSE [pc |-> "idle", seg |-> 0]
    <2>1. /\ worker.pc \in {"audio", "metadata"} /\ queue' = queue /\ fate' = fate
      BY <1>11 DEF RemoveAudio, RemoveMetadata, Working
    <2>2. worker.seg \in 1 .. MaxFrames
      BY <1>2, <1>4, <2>1
    <2>3. /\ files' \in [1 .. MaxFrames -> FileStates]
          /\ \A s \in 1 .. MaxFrames : files[s] # "tmp" => files'[s] # "tmp"
      BY <1>4, <1>11, <2>2 DEF RemoveAudio, RemoveMetadata, FileStates
    <2>4. /\ worker' \in [pc : WorkerPcs, seg : 0 .. MaxFrames] /\ worker'.pc \in {"idle", "metadata"}
          /\ worker'.pc \in {"upload", "audio", "metadata"} => worker'.seg # 0
      <3>1. 0 \in 0 .. MaxFrames
        BY <1>2
      <3> QED
        BY <1>4, <1>11, <2>1, <2>2, <3>1 DEF RemoveAudio, RemoveMetadata, Idle, WorkerPcs
    <2>5. SegmentTypes'
      BY <1>1, <1>3, <2>1, <2>3, <2>4 DEF SegmentTypes
    <2>6. StopIsLast'
      BY <1>1, <1>3, <2>1, <2>4 DEF StopIsLast
    <2>7. \A s \in 1 .. MaxFrames : Handed(s) => Handed(s)'
      BY <2>1 DEF Handed
    <2> QED
      BY <2>3, <2>5, <2>6, <2>7
  <1> QED
    BY <1>9, <1>10, <1>11 DEF WorkerStep, Working

\* The steps of the main thread that touch neither the recorder nor the worker.
LEMMA OtherMoves ==
    ASSUME CaptureInv, CaptureInv', SegmentsInv, UNCHANGED recording,
           \/ EndOfStream \/ Listen \/ Flush \/ UploadClip \/ MainFails \/ Kill
           \/ \E temp \in Weather, busy \in BOOLEAN : HandleClip(temp, busy)
    PROVE  SegmentsInv'
  <1> DEFINE pc == main'.pc
             ended == main'.ended
             exit == main'.exit
  <1>1. /\ main \in [pc : Pcs, ended : BOOLEAN, exit : Exits]
        /\ main.pc \in {"read", "listen"} => ~main.ended
        /\ main.pc = "flush" => main.ended
    BY MainFacts
  <1>2. UNCHANGED <<recording, heard, from, recorder, thread>>
    BY DEF EndOfStream, Listen, Flush, UploadClip, MainFails, Kill, HandleClip
  <1>3. pc \in Pcs /\ ended \in BOOLEAN /\ exit \in Exits
    BY <1>1 DEF EndOfStream, Listen, Flush, UploadClip, MainFails, Kill, HandleClip, Goto,
                Afterwards, Pcs, Exits
  <1>4. \/ main.pc = "read" /\ pc = (IF segment = 0 THEN "flush" ELSE "close") /\ ended
        \/ main.pc = "listen" /\ pc \in {"read", "clip"} /\ ~ended
        \/ main.pc = "flush" /\ pc \in {"stop", "clip"} /\ ended
        \/ /\ main.pc \in {"clip", "upload"} /\ ended = main.ended
           /\ pc = "upload" \/ pc = (IF ended THEN "stop" ELSE "read")
        \/ main.pc \in {"upload", "listen"} /\ pc = "stop" /\ ~ended
        \/ pc = "down" /\ exit = "killed"
    <2>1. CASE EndOfStream
      BY <1>1, <2>1 DEF EndOfStream
    <2>2. CASE Listen
      <3>1. main.pc = "listen" /\ (Goto("read") \/ Goto("clip"))
        BY <2>2 DEF Listen
      <3> QED
        BY <1>1, <3>1 DEF Goto
    <2>3. CASE Flush
      <3>1. main.pc = "flush" /\ (Goto("stop") \/ Goto("clip"))
        BY <2>3 DEF Flush
      <3> QED
        BY <1>1, <3>1 DEF Goto
    <2>4. CASE UploadClip
      BY <1>1, <2>4 DEF UploadClip, Goto, Afterwards
    <2>5. CASE MainFails
      BY <1>1, <2>5 DEF MainFails
    <2>6. CASE Kill
      BY <1>1, <2>6 DEF Kill
    <2>7. CASE \E temp \in Weather, busy \in BOOLEAN : HandleClip(temp, busy)
      BY <1>1, <2>7 DEF HandleClip, Goto, Afterwards
    <2> QED
      BY <2>1, <2>2, <2>3, <2>4, <2>5, <2>6, <2>7
  <1> HIDE DEF pc, ended, exit
  <1> QED
    BY <1>2, <1>3, <1>4, MainMoves DEF pc, ended, exit

\* Every step keeps the invariant of the segments.
LEMMA SegmentsInvStep ==
    CaptureInv /\ CaptureInv' /\ SegmentsInv /\ [CaptureNext]_vars => SegmentsInv'
  <1> SUFFICES ASSUME CaptureInv, CaptureInv', SegmentsInv, [CaptureNext]_vars
               PROVE  SegmentsInv'
    OBVIOUS
  <1>1. CASE UNCHANGED vars
    <2>1. /\ recording' = recording /\ heard' = heard /\ from' = from /\ main' = main
          /\ segment' = segment /\ files' = files /\ queue' = queue /\ worker' = worker
          /\ fate' = fate /\ Now' = Now
      BY <1>1 DEF vars, process, recorder, thread, Now
    <2>2. SegmentTypes /\ RecorderIsRight /\ StopIsLast /\ AllDealtWith
      BY DEF SegmentsInv
    <2>3. SegmentTypes' /\ StopIsLast'
      BY <2>1, <2>2 DEF SegmentTypes, StopIsLast
    <2>4. RecorderIsRight'
      BY <2>1, <2>2, RecorderStays
    <2>5. AllDealtWith'
      BY <2>1, <2>2 DEF AllDealtWith, DealtWith, Handed, Sound
    <2> QED
      BY <2>3, <2>4, <2>5 DEF SegmentsInv
  <1>2. CASE CaptureNext
    <2>1. UNCHANGED recording
      BY <1>2 DEF CaptureNext
    <2>2. CASE \E kind \in Kind(Now + 1, recording) : ReadFrame(kind)
      BY <2>1, <2>2, ReadSegment
    <2>3. CASE EndOfStream \/ MainFails \/ Kill
      BY <2>1, <2>3, OtherMoves
    <2>4. CASE MainStep
      BY <2>1, <2>4, OtherMoves, NameStep, HandOverStep, StopStep, ExitStep DEF MainStep
    <2>5. CASE WorkerStep
      BY <2>1, <2>5, WorkerMoves
    <2>6. CASE Restart
      BY <2>1, <2>6, RestartSegments
    <2> QED
      BY <1>2, <2>2, <2>3, <2>4, <2>5, <2>6 DEF CaptureNext
  <1> QED
    BY <1>1, <1>2

\* What it says of the segments.
LEMMA SegmentsAre == CaptureInv /\ SegmentsInv => SegmentsAreRight
  <1> SUFFICES ASSUME CaptureInv, SegmentsInv PROVE SegmentsAreRight
    OBVIOUS
  <1>1. SegmentTypes /\ RecorderIsRight /\ StopIsLast /\ AllDealtWith
    BY DEF SegmentsInv
  <1>2. /\ heard \in Seq(Kinds) /\ Now \in Nat /\ Now <= MaxFrames /\ MaxFrames \in Nat
        /\ main.pc \in Pcs
    BY MainFacts, CaptureAssumption
  <1>3. EdgeTypeOK
    <2>1. from \in 1 .. MaxFrames + 1
      BY <1>1, <1>2 DEF SegmentTypes
    <2>2. \A p \in DOMAIN queue : queue[p] \in 0 .. MaxFrames
      <3>1. queue \in Seq(0 .. MaxFrames)
        BY <1>1 DEF SegmentTypes
      <3> DEFINE S == 0 .. MaxFrames
      <3>2. queue \in Seq(S)
        BY <3>1
      <3> HIDE DEF S
      <3>3. \A p \in DOMAIN queue : queue[p] \in S
        BY <3>2
      <3> QED
        BY <3>3 DEF S
    <2> QED
      BY <1>1, <1>2, <2>1, <2>2 DEF EdgeTypeOK, SegmentTypes, WorkerPcs, Fates, Pcs
  <1>4. CleanStopHandsOver
    <2> SUFFICES ASSUME recording, main.pc = "down", main.exit = "clean",
                        NEW s \in from .. Now, (s - from) % SegmentFrames = 0
                 PROVE  fate[s] # {} /\ files[s] # "tmp"
      BY DEF CleanStopHandsOver
    <2>1. DealtWith(s)
      BY <1>1 DEF AllDealtWith, Sound
    <2>2. segment = 0 /\ worker.pc = "done" /\ Len(queue) = 0
      BY <1>1 DEF RecorderIsRight, StopIsLast
    <2>3. s # 0
      BY <1>1, <1>2 DEF SegmentTypes
    <2> QED
      BY <2>1, <2>2, <2>3 DEF DealtWith, Handed
  <1> QED
    BY <1>3, <1>4 DEF SegmentsAreRight

\* A process that stops at the end of its stream has dealt with every segment: it was
\* uploaded, its upload failed, or the full queue refused it, and none is left open.
THEOREM SegmentsRight == CaptureSpec => []SegmentsAreRight
  <1>1. Init => CaptureInv /\ SegmentsInv
    BY SquelchInvInit, SegmentsInvInit DEF CaptureInv, Init
  <1>2. CaptureInv /\ SegmentsInv /\ [CaptureNext]_vars => (CaptureInv /\ SegmentsInv)'
    BY CaptureInvStep, SegmentsInvStep
  <1>3. CaptureInv /\ SegmentsInv => SegmentsAreRight
    BY SegmentsAre
  <1> QED
    BY <1>1, <1>2, <1>3, PTL DEF CaptureSpec
=============================================================================
