------------------------- MODULE SpeechAnalysis_proofs -------------------------
(***************************************************************************)
(* What TLAPS proves of an analysis for any uploads, rates and thresholds: *)
(* that the detector's one pass finds exactly the stretches of speech, and *)
(* that the recognizer is given their audio and nothing else.              *)
(***************************************************************************)
EXTENDS SpeechAnalysis, FiniteSetTheorems, SequenceTheorems, TLAPS

(***************************************************************************)
(* Facts about numbers: division, and induction over them. The library's   *)
(* induction theorems take a predicate, which the provers cannot give      *)
(* them; stated of a set, induction follows from well-foundedness.         *)
(***************************************************************************)
LEMMA DivBounds ==
  ASSUME NEW x \in Int, NEW d \in Nat \ {0}
  PROVE  /\ x \div d \in Int
         /\ d * (x \div d) <= x
         /\ x < d * (x \div d) + d
OBVIOUS

LEMMA ProductMonotonic ==
  ASSUME NEW a \in Int, NEW b \in Int, NEW d \in Nat \ {0}
  PROVE  /\ a <= b => a * d <= b * d
         /\ a * d < b * d => a < b
OBVIOUS

LEMMA DivRange ==
  ASSUME NEW a \in Int, NEW b \in Int, NEW x \in Int, NEW d \in Nat \ {0},
         a * d <= x, x < (b + 1) * d
  PROVE  x \div d \in a..b
<1> DEFINE q == x \div d
<1>1. q \in Int /\ q * d <= x /\ x < (q + 1) * d
  BY DivBounds
<1> HIDE DEF q
<1>2. a * d < (q + 1) * d /\ q * d < (b + 1) * d
  BY <1>1
<1>3. a < q + 1 /\ q < b + 1
  BY <1>1, <1>2, ProductMonotonic
<1> QED
  BY <1>1, <1>3 DEF q

LEMMA DivMonotonic ==
  ASSUME NEW x \in Int, NEW y \in Int, NEW d \in Nat \ {0}, x <= y
  PROVE  x \div d <= y \div d
<1> DEFINE q == x \div d
           r == y \div d
<1>1. q \in Int /\ q * d <= x /\ r \in Int /\ y < (r + 1) * d
  BY DivBounds
<1> HIDE DEF q, r
<1>2. q * d < (r + 1) * d
  BY <1>1
<1>3. q < r + 1
  BY <1>1, <1>2, ProductMonotonic
<1> QED
  BY <1>1, <1>3 DEF q, r

\* Where a position lies whose frame is one of a..b.
LEMMA FramePositions ==
  ASSUME NEW a \in Nat, NEW b \in Nat, NEW x \in Nat, NEW d \in Nat \ {0},
         x \div d \in a..b
  PROVE  a * d <= x /\ x < (b + 1) * d
<1> DEFINE q == x \div d
<1>1. q \in Int /\ d * q <= x /\ x < d * q + d
  BY DivBounds
<1> HIDE DEF q
<1>2. a <= q /\ q + 1 <= b + 1
  BY <1>1 DEF q
<1>3. a * d <= q * d /\ (q + 1) * d <= (b + 1) * d
  BY <1>1, <1>2, ProductMonotonic
<1>4. (q + 1) * d = d * q + d /\ q * d = d * q
  BY <1>1
<1> QED
  BY <1>1, <1>3, <1>4

\* A frame that audio has begins before the audio's end.
LEMMA InLastFrame ==
  ASSUME NEW p \in Nat, NEW d \in Nat \ {0}, NEW f \in Nat, f < (p + d - 1) \div d
  PROVE  f * d < p
<1> DEFINE n == (p + d - 1) \div d
<1>1. n \in Int /\ n * d <= p + d - 1
  BY DivBounds
<1>2. f + 1 <= n
  BY <1>1
<1> HIDE DEF n
<1>3. (f + 1) * d <= n * d
  BY <1>1, <1>2, ProductMonotonic
<1>4. (f + 1) * d = f * d + d
  OBVIOUS
<1> QED
  BY <1>1, <1>3, <1>4

\* The positions of the frames a..b of audio of p samples: there are some, they are
\* in those frames, and they fill a frame if there are two.
LEMMA SegmentSamples ==
  ASSUME NEW a \in Nat, NEW b \in Nat, NEW p \in Nat, NEW d \in Nat \ {0},
         a <= b, b < (p + d - 1) \div d
  PROVE  LET to == IF (b + 1) * d < p THEN (b + 1) * d ELSE p IN
         /\ a * d < to /\ to <= p
         /\ \A x \in Nat : a * d <= x /\ x < to => x \div d \in a..b
         /\ a < b => to - a * d >= d
<1> DEFINE to == IF (b + 1) * d < p THEN (b + 1) * d ELSE p
<1>1. b * d < p
  BY InLastFrame
<1>2. a * d <= b * d /\ (b + 1) * d = b * d + d /\ a * d \in Nat /\ b * d \in Nat
  BY ProductMonotonic
<1>3. a * d < to /\ to <= p /\ to <= (b + 1) * d /\ b * d < to /\ to \in Nat
  BY <1>1, <1>2
<1> HIDE DEF to
<1>4. ASSUME NEW x \in Nat, a * d <= x, x < to
      PROVE  x \div d \in a..b
  <2>1. x < (b + 1) * d
    BY <1>2, <1>3, <1>4
  <2> QED
    BY <1>4, <2>1, DivRange
<1>5. ASSUME a < b
      PROVE  to - a * d >= d
  <2>1. (a + 1) * d <= b * d
    BY <1>5, ProductMonotonic
  <2>2. (a + 1) * d = a * d + d
    OBVIOUS
  <2> QED
    BY <1>2, <1>3, <2>1, <2>2
<1> QED
  BY <1>3, <1>4, <1>5 DEF to

\* Every non-empty set of naturals has a least element ...
LEMMA LeastOf ==
  ASSUME NEW T \in SUBSET Nat, T # {}
  PROVE  \E m \in T : \A k \in T : m <= k
<1> DEFINE R == {ss \in Nat \X Nat : ss[1] < ss[2]}
<1>1. IsWellFoundedOn(R, Nat)
  BY NatLessThanWellFounded DEF OpToRel
<1>2. \A x, y \in Nat : y < x => <<y, x>> \in R
  OBVIOUS
<1> HIDE DEF R
<1>3. PICK m \in T : \A k \in T : ~(<<k, m>> \in R)
  BY <1>1, WFMin
<1>4. \A k \in T : ~(k < m) /\ k \in Nat /\ m \in Nat
  BY <1>2, <1>3
<1> QED
  BY <1>4

\* ... so a set with 0, and with n + 1 whenever it has n < last, has all up to last.
LEMMA UpwardInduction ==
  ASSUME NEW final \in Nat, NEW S, 0 \in S,
         \A n \in 0..(final - 1) : n \in S => n + 1 \in S
  PROVE  final \in S /\ \A n \in 0..final : n \in S
<1> SUFFICES ASSUME (0..final) \ S # {}
             PROVE  FALSE
  OBVIOUS
<1>0. (0..final) \ S \in SUBSET Nat
  OBVIOUS
<1>1. PICK m \in (0..final) \ S : \A k \in (0..final) \ S : m <= k
  BY <1>0, LeastOf
<1>2. m \in Nat /\ m # 0 /\ m - 1 \in 0..(final - 1) /\ m - 1 \in 0..final /\ ~(m <= m - 1)
  BY <1>1
<1>3. m - 1 \in S
  BY <1>1, <1>2
<1>4. (m - 1) + 1 = m
  BY <1>1
<1> QED
  BY <1>1, <1>2, <1>3, <1>4

----------------------------------------------------------------------------
(***************************************************************************)
(* Types, and what is known of the upload on the way.                      *)
(***************************************************************************)

\* An upload's fields; its frames are those of the detector.
LEMMA UploadFields ==
  ASSUME NEW u \in Uploads
  PROVE  /\ u.rate \in Nat \ {0} /\ u.present \in Nat /\ u.declared \in Nat
         /\ u.voiced \in Seq(BOOLEAN) /\ Len(u.voiced) \in Nat
         /\ Len(u.voiced) = Frames(u.present, u.rate)
         /\ FrameSize(u.rate) \in Nat \ {0}
         /\ u.oversized \in BOOLEAN /\ u.readable \in BOOLEAN /\ u.compressed \in BOOLEAN
<1>1. u \in Upload /\ Len(u.voiced) = Frames(u.present, u.rate)
  BY UploadAssumption
<1>2. /\ u.rate \in Nat \ {0} /\ u.present \in Nat /\ u.declared \in Nat
      /\ u.voiced \in Seq(BOOLEAN)
      /\ u.oversized \in BOOLEAN /\ u.readable \in BOOLEAN /\ u.compressed \in BOOLEAN
  BY <1>1 DEF Upload
<1>3. FrameLength * u.rate \in Nat \ {0}
  BY <1>2, SizeAssumption
<1> QED
  BY <1>1, <1>2, <1>3 DEF FrameSize

\* TypeOK, with what each stage of a request has been through. Until the answer
\* nothing was prepared, consulted or heard.
Staged ==
  /\ at \in {"upload", "load"} =>
       index = 0 /\ start = None /\ last = None /\ segments = <<>>
  /\ at = "load" => ~upload.oversized
  /\ at \in {"scan", "transcribe"} =>
       ~upload.oversized /\ Supported(upload) /\ upload.present = upload.declared
  /\ at = "transcribe" => index = Len(upload.voiced)
  /\ at # "done" => prepared = <<>> /\ ~consulted /\ ~heard /\ status = 0

Marked ==
  /\ start = None <=> last = None
  /\ start # None => start <= last /\ last < index

TypeInv == TypeOK /\ Staged /\ (at # "done" => Marked)

Places == {"upload", "load", "scan", "transcribe", "done"}

(***************************************************************************)
(* The samples of the segments, segment by segment, as Selected's function *)
(* accumulates them.                                                       *)
(***************************************************************************)
UpTo ==
  CHOOSE g : g = [n \in 0..Len(segments) |->
                    IF n = 0 THEN <<>> ELSE g[n - 1] \o Cut(segments[n])]

\* The function that its recursive definition describes exists.
LEMMA UpToUnfolds ==
  ASSUME Len(segments) \in Nat
  PROVE  /\ UpTo = [n \in 0..Len(segments) |->
                      IF n = 0 THEN <<>> ELSE UpTo[n - 1] \o Cut(segments[n])]
         /\ Selected = UpTo[Len(segments)]
<1> DEFINE L == Len(segments)
           Fits(g, m) == g = [n \in 0..m |->
                                IF n = 0 THEN <<>> ELSE g[n - 1] \o Cut(segments[n])]
           S == {m \in 0..L : \E g : Fits(g, m)}
<1>0. L \in Nat
  OBVIOUS
<1> HIDE DEF L
<1>1. 0 \in S
  <2> DEFINE g == [n \in 0..0 |-> <<>>]
  <2>1. Fits(g, 0)
    OBVIOUS
  <2>2. \E h : Fits(h, 0)
    BY <2>1
  <2>3. 0 \in 0..L
    BY <1>0
  <2> HIDE DEF Fits
  <2> QED
    BY <2>2, <2>3
<1>2. ASSUME NEW m \in 0..(L - 1), m \in S
      PROVE  m + 1 \in S
  <2>1. PICK g : Fits(g, m)
    BY <1>2
  <2> DEFINE h == [n \in 0..(m + 1) |->
                     IF n <= m THEN g[n] ELSE g[m] \o Cut(segments[m + 1])]
  <2>2. ASSUME NEW n \in 0..(m + 1)
        PROVE  h[n] = IF n = 0 THEN <<>> ELSE h[n - 1] \o Cut(segments[n])
    <3>1. CASE n = 0
      BY <2>1, <3>1
    <3>2. CASE n # 0 /\ n <= m
      <4>1. n \in 0..m /\ n - 1 \in 0..(m + 1) /\ n - 1 <= m
        BY <3>2
      <4>2. g[n] = g[n - 1] \o Cut(segments[n])
        BY <2>1, <3>2, <4>1
      <4> QED
        BY <3>2, <4>1, <4>2
    <3>3. CASE n = m + 1
      <4>1. n # 0 /\ n - 1 = m /\ ~(n <= m) /\ m \in 0..(m + 1) /\ m <= m
        BY <3>3
      <4> QED
        BY <3>3, <4>1
    <3> QED
      BY <3>1, <3>2, <3>3
  <2>3. Fits(h, m + 1)
    BY <2>2
  <2> HIDE DEF h, Fits
  <2>4. \E k : Fits(k, m + 1)
    BY <2>3
  <2>5. m + 1 \in 0..L
    BY <1>0
  <2> QED
    BY <2>4, <2>5
<1> HIDE DEF S
<1>3. L \in S
  BY <1>0, <1>1, <1>2, UpwardInduction
<1>4. \E g : Fits(g, L)
  <2> HIDE DEF Fits
  <2> QED
    BY <1>3 DEF S
<1>5. Fits(UpTo, L)
  BY <1>4 DEF UpTo, L
<1>6. Selected = UpTo[L]
  BY DEF Selected, UpTo, L
<1> QED
  BY <1>5, <1>6 DEF L

\* A segment's samples: all its frames' positions, in order, none past the end, and a
\* whole frame of them at least when it has two frames or more.
LEMMA CutFacts ==
  ASSUME upload \in Uploads, NEW s, s.first \in Nat, s.end \in Nat
  PROVE  LET size == FrameSize(upload.rate) IN
         /\ Cut(s) \in Seq(Nat)
         /\ s.first <= s.end /\ s.end < Len(upload.voiced) =>
              /\ Len(Cut(s)) \in Nat \ {0}
              /\ \A i \in 1..Len(Cut(s)) :
                   /\ Cut(s)[i] = s.first * size + i - 1
                   /\ Cut(s)[i] < upload.present
                   /\ Cut(s)[i] \div size \in s.first..s.end
              /\ \A x \in Nat : x < upload.present /\ x \div size \in s.first..s.end
                   => \E i \in 1..Len(Cut(s)) : Cut(s)[i] = x
              /\ s.first < s.end => Len(Cut(s)) >= size
<1> DEFINE size == FrameSize(upload.rate)
           a == s.first
           b == s.end
           p == upload.present
           to == IF (b + 1) * size < p THEN (b + 1) * size ELSE p
           n == to - a * size
<1>1. size \in Nat \ {0} /\ p \in Nat /\ Len(upload.voiced) = (p + size - 1) \div size
  BY UploadFields DEF Frames
<1>2. a \in Nat /\ b \in Nat
  OBVIOUS
<1>3. Cut(s) = [i \in 1..n |-> a * size + i - 1]
  BY DEF Cut
<1> HIDE DEF size, a, b, p
<1>4. to \in Nat /\ a * size \in Nat /\ n \in Int
  BY <1>1, <1>2
<1>5. Cut(s) \in Seq(Nat) /\ (n >= 0 => Len(Cut(s)) = n)
      /\ \A i \in 1..Len(Cut(s)) : Cut(s)[i] = a * size + i - 1 /\ Cut(s)[i] \in Nat
  <2> HIDE DEF n
  <2>1. \A i \in 1..n : a * size + i - 1 \in Nat
    BY <1>4
  <2>2. CASE n >= 0
    BY <1>3, <1>4, <2>1, <2>2
  <2>3. CASE n < 0
    <3>1. 1..n = {} /\ 1..0 = {}
      BY <1>4, <2>3
    <3>2. Cut(s) = <<>> /\ Len(<<>>) = 0 /\ <<>> \in Seq(Nat)
      BY <1>3, <3>1
    <3> QED
      BY <1>4, <2>3, <3>1, <3>2
  <2> QED
    BY <1>4, <2>2, <2>3
<1>6. ASSUME a <= b, b < Len(upload.voiced)
      PROVE  /\ Len(Cut(s)) \in Nat \ {0}
             /\ \A i \in 1..Len(Cut(s)) :
                  /\ Cut(s)[i] = a * size + i - 1
                  /\ Cut(s)[i] < p
                  /\ Cut(s)[i] \div size \in a..b
             /\ \A x \in Nat : x < p /\ x \div size \in a..b
                  => \E i \in 1..Len(Cut(s)) : Cut(s)[i] = x
             /\ a < b => Len(Cut(s)) >= size
  <2>1. /\ a * size < to /\ to <= p
        /\ \A x \in Nat : a * size <= x /\ x < to => x \div size \in a..b
        /\ a < b => to - a * size >= size
    BY <1>1, <1>2, <1>6, SegmentSamples
  <2> HIDE DEF to
  <2>2. n > 0
    BY <1>4, <2>1
  <2>3. Len(Cut(s)) = n
    BY <1>4, <1>5, <2>2
  <2>4. ASSUME NEW i \in 1..Len(Cut(s))
        PROVE  Cut(s)[i] \in Nat /\ a * size <= Cut(s)[i] /\ Cut(s)[i] < to
    BY <1>4, <1>5, <2>3
  <2>5. ASSUME NEW i \in 1..Len(Cut(s))
        PROVE  Cut(s)[i] < p /\ Cut(s)[i] \div size \in a..b
    <3> DEFINE x == Cut(s)[i]
    <3>1. x \in Nat /\ a * size <= x /\ x < to
      BY <2>4
    <3> HIDE DEF x
    <3>2. x < p
      BY <1>1, <1>4, <2>1, <3>1
    <3> QED
      BY <2>1, <3>1, <3>2 DEF x
  <2>6. ASSUME NEW x \in Nat, x < p, x \div size \in a..b
        PROVE  \E i \in 1..Len(Cut(s)) : Cut(s)[i] = x
    <3>1. a * size <= x /\ x < (b + 1) * size
      BY <1>1, <1>2, <2>6, FramePositions
    <3>2. x < to
      BY <2>6, <3>1 DEF to
    <3>3. x - a * size + 1 \in 1..Len(Cut(s))
      BY <1>4, <2>3, <3>1, <3>2
    <3>4. Cut(s)[x - a * size + 1] = x
      BY <1>4, <1>5, <3>3
    <3> QED
      BY <3>3, <3>4
  <2> QED
    BY <1>4, <1>5, <2>1, <2>2, <2>3, <2>5, <2>6
<1> QED
  BY <1>5, <1>6 DEF a, b, p, size

LEMMA SelectedTyped ==
  ASSUME NEW P, segments \in Seq(P), \A s \in P : Cut(s) \in Seq(Nat)
  PROVE  Selected \in Seq(Nat)
<1>1. Len(segments) \in Nat /\ \A m \in 1..Len(segments) : segments[m] \in P
  OBVIOUS
<1>2. /\ \A n \in 0..Len(segments) :
           UpTo[n] = IF n = 0 THEN <<>> ELSE UpTo[n - 1] \o Cut(segments[n])
      /\ Selected = UpTo[Len(segments)]
  <2>1. DOMAIN segments = 1..Len(segments)
    OBVIOUS
  <2> QED
    BY <1>1, UpToUnfolds
<1> DEFINE L == Len(segments)
           S == {m \in 0..L : UpTo[m] \in Seq(Nat)}
<1> HIDE DEF L
<1>3. 0 \in S
  <2>1. 0 \in 0..L /\ UpTo[0] = <<>> /\ <<>> \in Seq(Nat)
    BY <1>1, <1>2 DEF L
  <2> QED
    BY <2>1
<1>4. ASSUME NEW m \in 0..(L - 1), m \in S
      PROVE  m + 1 \in S
  <2>1. m + 1 \in 1..L /\ m + 1 \in 0..L /\ m + 1 # 0 /\ (m + 1) - 1 = m
    BY <1>1 DEF L
  <2>2. UpTo[m + 1] = UpTo[m] \o Cut(segments[m + 1])
    BY <1>2, <2>1 DEF L
  <2>3. Cut(segments[m + 1]) \in Seq(Nat)
    BY <1>1, <2>1 DEF L
  <2>4. UpTo[m + 1] \in Seq(Nat)
    BY <1>4, <2>2, <2>3, ConcatProperties
  <2> QED
    BY <2>1, <2>4
<1> HIDE DEF S
<1>5. L \in S
  BY <1>1, <1>3, <1>4, UpwardInduction DEF L
<1> QED
  BY <1>2, <1>5 DEF L, S

\* The length after resampling: to the nearest, and so at least one when the samples
\* fill a unit of the rate.
LEMMA ResampledLengthFacts ==
  ASSUME NEW length \in Nat, NEW rate \in Nat \ {0}
  PROVE  LET size == ResampledLength(length, rate) IN
         /\ size \in Nat
         /\ 2 * size * rate - 2 * length * TargetRate \in -rate..rate
         /\ length >= rate => size >= 1
<1> DEFINE size == ResampledLength(length, rate)
           u == length * TargetRate
           v == size * rate
<1>1. u \in Nat /\ TargetRate \in Nat \ {0} /\ 2 * length * TargetRate = 2 * u
  BY SizeAssumption
<1>2. size = (2 * u + rate) \div (2 * rate)
  BY <1>1 DEF ResampledLength
<1> HIDE DEF u, size
<1>9. 2 * u + rate \in Int /\ 2 * rate \in Nat \ {0}
  BY <1>1
<1>3. /\ size \in Int /\ (2 * rate) * size <= 2 * u + rate
      /\ 2 * u + rate < (2 * rate) * size + 2 * rate
  BY <1>2, <1>9, DivBounds
<1>4. v \in Int /\ (2 * rate) * size = 2 * v /\ 2 * size * rate = 2 * v
  BY <1>3
<1> HIDE DEF v
<1>5. 2 * v <= 2 * u + rate /\ 2 * u < 2 * v + rate
  BY <1>1, <1>3, <1>4
<1>6. (-1) * rate < size * rate
  BY <1>1, <1>4, <1>5 DEF v
<1>7. size > -1
  BY <1>3, <1>6, ProductMonotonic
<1>8. ASSUME length >= rate
      PROVE  size >= 1
  <2>1. u >= rate
    BY <1>1, <1>8 DEF u
  <2>2. 0 * rate < size * rate
    BY <1>1, <1>4, <1>5, <2>1 DEF v
  <2>3. 0 < size
    BY <1>3, <2>2, ProductMonotonic
  <2> QED
    BY <1>3, <2>3
<1> QED
  BY <1>1, <1>3, <1>4, <1>5, <1>7, <1>8 DEF u, size

\* The sample that sounds at the time of the i-th of `size` outputs is there: the last
\* output is not past the end.
LEMMA SourceInReach ==
  ASSUME NEW length \in Nat, NEW rate \in Nat \ {0}, NEW size \in Nat,
         2 * size * rate - 2 * length * TargetRate \in -rate..rate,
         NEW i \in 1..size
  PROVE  LET k == ((i - 1) * rate) \div TargetRate IN
         /\ k \in Nat /\ k < length
         /\ k * TargetRate <= (i - 1) * rate
         /\ (i - 1) * rate < (k + 1) * TargetRate
<1> DEFINE x == (i - 1) * rate
           k == x \div TargetRate
           u == length * TargetRate
           v == size * rate
<1>1. /\ TargetRate \in Nat \ {0} /\ x \in Int /\ u \in Nat /\ v \in Nat
      /\ 2 * size * rate = 2 * v /\ 2 * length * TargetRate = 2 * u
  BY SizeAssumption
<1>2. x >= 0 /\ x + rate <= v
  <2>1. 0 <= i - 1 /\ i <= size /\ i - 1 \in Int
    OBVIOUS
  <2>2. 0 * rate <= (i - 1) * rate /\ i * rate <= size * rate
    BY <2>1, ProductMonotonic
  <2>3. i * rate = (i - 1) * rate + rate
    OBVIOUS
  <2> QED
    BY <2>2, <2>3
<1> HIDE DEF x
<1>3. k \in Int /\ TargetRate * k <= x /\ x < TargetRate * k + TargetRate
  BY <1>1, DivBounds
<1> HIDE DEF k, u, v
<1>4. 2 * v - 2 * u <= rate
  BY <1>1
<1>5. x < u
  BY <1>1, <1>2, <1>4
<1>6. TargetRate * k = k * TargetRate /\ TargetRate * k + TargetRate = (k + 1) * TargetRate
      /\ k * TargetRate \in Int
  BY <1>1, <1>3
<1>7. k * TargetRate < length * TargetRate /\ (-1) * TargetRate < k * TargetRate
  BY <1>1, <1>2, <1>3, <1>5, <1>6 DEF u
<1>8. k < length /\ -1 < k
  BY <1>1, <1>3, <1>7, ProductMonotonic
<1> QED
  BY <1>1, <1>3, <1>6, <1>8 DEF k, x

\* Resampling gives at each moment the sample that sounds then, for as long as the
\* samples last, and is left with some of them if they fill a unit of the rate.
LEMMA ResampledFacts ==
  ASSUME NEW samples \in Seq(Nat), NEW rate \in Nat \ {0}
  PROVE  LET out == Resampled(samples, rate) IN
         /\ out \in Seq(Nat)
         /\ \A i \in 1..Len(out) :
              \E k \in 1..Len(samples) :
                /\ out[i] = samples[k]
                /\ (k - 1) * TargetRate <= (i - 1) * rate
                /\ (i - 1) * rate < k * TargetRate
         /\ 2 * Len(out) * rate - 2 * Len(samples) * TargetRate \in -rate..rate
         /\ samples = <<>> => out = <<>>
         /\ Len(samples) >= rate => out # <<>>
<1> DEFINE out == Resampled(samples, rate)
           length == Len(samples)
           size == ResampledLength(length, rate)
           at_(i) == ((i - 1) * rate) \div TargetRate
           from(i) == IF at_(i) < length THEN at_(i) + 1 ELSE length
<1>0. length \in Nat /\ TargetRate \in Nat \ {0}
  BY SizeAssumption
<1>1. CASE rate = TargetRate
  <2>1. out = samples
    BY <1>1 DEF Resampled
  <2>2. \A i \in 1..length :
          (i - 1) * TargetRate <= (i - 1) * rate /\ (i - 1) * rate < i * TargetRate
    <3> SUFFICES ASSUME NEW i \in 1..length
                 PROVE  (i - 1) * rate < i * rate
      BY <1>0, <1>1
    <3>1. i * rate = (i - 1) * rate + rate /\ (i - 1) * rate \in Int
      OBVIOUS
    <3> QED
      BY <3>1
  <2>3. 2 * length * rate - 2 * length * TargetRate = 0
    BY <1>0, <1>1
  <2>4. 0 \in -rate..rate
    OBVIOUS
  <2>5. length >= rate => samples # <<>>
    OBVIOUS
  <2> QED
    BY <2>1, <2>2, <2>3, <2>4, <2>5
<1>2. CASE samples = <<>> /\ rate # TargetRate
  <2>1. out = <<>> /\ length = 0 /\ 1..0 = {} /\ Len(<<>>) = 0
    BY <1>2 DEF Resampled
  <2>2. 2 * 0 * rate - 2 * 0 * TargetRate = 0 /\ 0 \in -rate..rate
    BY <1>0
  <2>3. ~(0 >= rate) /\ <<>> \in Seq(Nat)
    OBVIOUS
  <2> HIDE DEF out
  <2> QED
    BY <1>2, <2>1, <2>2, <2>3 DEF out
<1>3. CASE samples # <<>> /\ rate # TargetRate
  <2>1. out = [i \in 1..size |-> samples[from(i)]]
    BY <1>3 DEF Resampled
  <2>2. /\ size \in Nat
        /\ 2 * size * rate - 2 * length * TargetRate \in -rate..rate
        /\ length >= rate => size >= 1
    BY <1>0, ResampledLengthFacts
  <2> HIDE DEF size
  <2>3. \A i \in 1..size :
          /\ at_(i) \in Nat /\ at_(i) < length
          /\ at_(i) * TargetRate <= (i - 1) * rate
          /\ (i - 1) * rate < (at_(i) + 1) * TargetRate
    BY <1>0, <2>2, SourceInReach
  <2> HIDE DEF at_
  <2>4. \A i \in 1..size :
          /\ from(i) \in 1..length /\ from(i) - 1 = at_(i) /\ from(i) = at_(i) + 1
    BY <1>0, <2>3
  <2> HIDE DEF from
  <2>5. \A i \in 1..size : samples[from(i)] \in Nat
    BY <2>4
  <2>6. out \in Seq(Nat) /\ Len(out) = size
    BY <2>1, <2>2, <2>5
  <2>7. \A i \in 1..size :
          /\ out[i] = samples[from(i)]
          /\ (from(i) - 1) * TargetRate <= (i - 1) * rate
          /\ (i - 1) * rate < from(i) * TargetRate
    BY <2>1, <2>3, <2>4
  <2> HIDE DEF out
  <2>8. \A i \in 1..Len(out) :
          \E k \in 1..length :
            /\ out[i] = samples[k]
            /\ (k - 1) * TargetRate <= (i - 1) * rate
            /\ (i - 1) * rate < k * TargetRate
    BY <2>4, <2>6, <2>7
  <2>9. size >= 1 => out # <<>>
    BY <2>6
  <2> QED
    BY <1>3, <2>2, <2>6, <2>8, <2>9 DEF out
<1> QED
  BY <1>1, <1>2, <1>3

\* What the recognizer is given has its type.
LEMMA PreparedTyped ==
  ASSUME TypeOK
  PROVE  Resampled(Selected, upload.rate) \in Seq(Nat)
<1>1. upload \in Uploads /\ upload.rate \in Nat \ {0} /\ Len(upload.voiced) \in Nat
  BY UploadFields DEF TypeOK
<1>2. index \in Nat /\ segments \in Seq([first: 0..index, end: 0..index])
  BY <1>1 DEF TypeOK
<1>3. ASSUME NEW s \in [first: 0..index, end: 0..index]
      PROVE  Cut(s) \in Seq(Nat)
  <2>1. s.first \in Nat /\ s.end \in Nat
    BY <1>2
  <2> QED
    BY <1>1, <2>1, CutFacts
<1>4. Selected \in Seq(Nat)
  BY <1>2, <1>3, SelectedTyped
<1> QED
  BY <1>1, <1>4, ResampledFacts

LEMMA InitTyped == Init => TypeInv
<1> SUFFICES ASSUME Init
             PROVE  TypeInv
  OBVIOUS
<1>1. upload \in Uploads /\ Len(upload.voiced) \in Nat
  BY UploadFields DEF Init
<1>2. <<>> \in Seq([first: 0..0, end: 0..0]) /\ <<>> \in Seq(Nat) /\ 0 \in 0..Len(upload.voiced)
  BY <1>1
<1>3. TypeOK
  BY <1>1, <1>2 DEF Init, TypeOK, None
<1> QED
  BY <1>3 DEF Init, TypeInv, Staged, Marked

\* Segments of earlier frames are segments of more frames.
LEMMA MoreFrames ==
  ASSUME NEW n \in Nat, NEW s \in Seq([first: 0..n, end: 0..n])
  PROVE  s \in Seq([first: 0..(n + 1), end: 0..(n + 1)])
<1>1. [first: 0..n, end: 0..n] \subseteq [first: 0..(n + 1), end: 0..(n + 1)]
  OBVIOUS
<1> QED
  BY <1>1, SeqMonotonic

\* A segment that is not too short is appended.
LEMMA AppendedTyped ==
  ASSUME TypeOK, start # None, last # None
  PROVE  Appended \in Seq([first: 0..index, end: 0..index])
<1> DEFINE P == [first: 0..index, end: 0..index]
           s == [first |-> start, end |-> last]
<1>1. segments \in Seq(P) /\ s \in P
  BY DEF TypeOK
<1>2. Appended = segments \/ Appended = Append(segments, s)
  BY DEF Appended
<1> HIDE DEF P, s
<1>3. Appended \in Seq(P)
  BY <1>1, <1>2
<1> QED
  BY <1>3 DEF P

\* The steps of the loader and the provider leave the marks alone.
LEMMA TypeStep == TypeInv /\ [Next]_vars => TypeInv'
<1> SUFFICES ASSUME TypeInv, [Next]_vars
             PROVE  TypeInv'
  OBVIOUS
<1>0. upload \in Uploads /\ Len(upload.voiced) \in Nat /\ index \in Nat
      /\ index <= Len(upload.voiced)
  BY UploadFields DEF TypeInv, TypeOK
<1>1. CASE TooLarge \/ ProviderMissing \/ InvalidAudio \/ Truncated
  BY <1>1 DEF TooLarge, ProviderMissing, InvalidAudio, Truncated, Answer, scanVars,
              TypeInv, TypeOK, Staged, Marked
<1>2. CASE BuildService \/ Load
  BY <1>2 DEF BuildService, Load, scanVars, TypeInv, TypeOK, Staged, Marked
<1>3. CASE VoicedFrame
  <2>1. /\ at = "scan" /\ at' = at /\ upload' = upload /\ index < Len(upload.voiced)
        /\ index' = index + 1 /\ segments' = segments
        /\ start' \in 0..index' /\ last' \in 0..index' /\ start' <= last' /\ last' < index'
        /\ UNCHANGED <<provider, prepared, consulted, heard, status>>
    BY <1>0, <1>3 DEF VoicedFrame, Scanning, TypeInv, TypeOK, Marked, None
  <2>2. segments' \in Seq([first: 0..index', end: 0..index'])
    BY <1>0, <2>1, MoreFrames DEF TypeInv, TypeOK
  <2>3. TypeOK'
    BY <1>0, <2>1, <2>2 DEF TypeInv, TypeOK
  <2> QED
    BY <2>1, <2>3 DEF TypeInv, Staged, Marked, Supported, None
<1>4. CASE SilentFrame
  <2>1. /\ at = "scan" /\ at' = at /\ upload' = upload /\ index < Len(upload.voiced)
        /\ index' = index + 1 /\ segments' = segments /\ start' = start /\ last' = last
        /\ UNCHANGED <<provider, prepared, consulted, heard, status>>
    BY <1>4 DEF SilentFrame, Scanning
  <2>2. segments' \in Seq([first: 0..index', end: 0..index'])
    BY <1>0, <2>1, MoreFrames DEF TypeInv, TypeOK
  <2>3. TypeOK'
    BY <1>0, <2>1, <2>2 DEF TypeInv, TypeOK, None
  <2>4. Marked'
    BY <1>0, <2>1 DEF TypeInv, TypeOK, Marked, None
  <2> QED
    BY <2>1, <2>3, <2>4 DEF TypeInv, Staged, Supported
<1>5. CASE CloseSegment
  <2>1. /\ at = "scan" /\ at' = at /\ upload' = upload /\ index < Len(upload.voiced)
        /\ index' = index + 1 /\ segments' = Appended /\ start' = None /\ last' = None
        /\ start # None /\ last # None
        /\ UNCHANGED <<provider, prepared, consulted, heard, status>>
    BY <1>5 DEF CloseSegment, Scanning, PauseOver, TypeInv, Marked
  <2>2. segments' \in Seq([first: 0..index', end: 0..index'])
    BY <1>0, <2>1, MoreFrames, AppendedTyped DEF TypeInv
  <2>3. TypeOK'
    BY <1>0, <2>1, <2>2 DEF TypeInv, TypeOK
  <2> QED
    BY <2>1, <2>3 DEF TypeInv, Staged, Marked, Supported
<1>6. CASE EndOfAudio
  <2>1. /\ at = "scan" /\ at' = "transcribe" /\ upload' = upload
        /\ index = Len(upload.voiced) /\ index' = index /\ start' = start /\ last' = last
        /\ segments' = IF start = None THEN segments ELSE Appended
        /\ UNCHANGED <<provider, prepared, consulted, heard, status>>
    BY <1>6 DEF EndOfAudio
  <2>2. segments' \in Seq([first: 0..index', end: 0..index'])
    BY <2>1, AppendedTyped DEF TypeInv, TypeOK, Marked
  <2>3. TypeOK'
    BY <2>1, <2>2 DEF TypeInv, TypeOK
  <2> QED
    BY <2>1, <2>3 DEF TypeInv, Staged, Marked, Supported
<1>7. CASE Stub \/ TranscriberUnavailable
  <2>1. heard' \in BOOLEAN
    <3>1. CASE Stub
      <4>1. heard' = (segments # <<>>)
        BY <3>1 DEF Stub
      <4> QED
        BY <4>1, Zenon
    <3>2. CASE TranscriberUnavailable
      BY <3>2 DEF TranscriberUnavailable, TypeInv, TypeOK
    <3> QED
      BY <1>7, <3>1, <3>2
  <2>2. /\ at = "transcribe" /\ at' = "done" /\ consulted' = TRUE /\ status' \in {200, 503}
        /\ UNCHANGED <<upload, provider, index, start, last, segments, prepared>>
    BY <1>7 DEF Stub, TranscriberUnavailable, Answer, scanVars
  <2>3. TypeOK'
    BY <2>1, <2>2 DEF TypeInv, TypeOK
  <2> QED
    BY <2>2, <2>3 DEF TypeInv, Staged
<1>8. CASE Whisper \/ RecognizerFails
  <2>1. prepared' = Resampled(Selected, upload.rate)
    BY <1>8 DEF Whisper, RecognizerFails
  <2>2. prepared' \in Seq(Nat)
    BY <2>1, PreparedTyped DEF TypeInv
  <2>3. CASE Whisper
    BY <2>2, <2>3 DEF Whisper, Answer, scanVars, TypeInv, TypeOK, Staged
  <2>4. CASE RecognizerFails
    BY <2>2, <2>4 DEF RecognizerFails, Answer, scanVars, TypeInv, TypeOK, Staged
  <2> QED
    BY <1>8, <2>3, <2>4
<1>9. CASE UNCHANGED vars
  BY <1>9 DEF vars, scanVars, TypeInv, TypeOK, Staged, Marked, Supported
<1> QED
  BY <1>1, <1>2, <1>3, <1>4, <1>5, <1>6, <1>7, <1>8, <1>9 DEF Next, Detect, Transcribe

\* Every variable has its type: no mark and no segment is past the frame the
\* detector looks at, and what is given to the recognizer is a list of positions.
THEOREM TypeCorrect == Spec => []TypeOK
<1>1. TypeInv => TypeOK
  BY DEF TypeInv
<1> QED
  BY <1>1, InitTyped, TypeStep, PTL DEF Spec

----------------------------------------------------------------------------
(***************************************************************************)
(* The scan. Silent and Linked are the two halves of Island; Sighted says  *)
(* what the two marks know of the frames passed, FoundIn that a list of    *)
(* segments is complete up to a frame, in order and without invention.     *)
(***************************************************************************)
Silent(a, b) == VoicedFrames \intersect a..b = {}

Linked(a, b) ==
  \A f \in a..b : \E v \in VoicedFrames : v \in a..f /\ f - v <= AllowedSilence

Long == {i \in Islands : ~TooShort(i[1], i[2])}

\* No segment open: not a voiced frame within the last AllowedSilence + 1. Open:
\* an island so far, behind enough silence.
Sighted ==
  IF start = None THEN Silent(index - 1 - AllowedSilence, index - 1)
  ELSE /\ start \in VoicedFrames /\ last \in VoicedFrames
       /\ Silent(start - 1 - AllowedSilence, start - 1)
       /\ Linked(start, last)
       /\ Silent(last + 1, index - 1)
       /\ index - 1 - last <= AllowedSilence

FoundIn(list, bound, long) ==
  /\ \A i \in 1..Len(list) : <<list[i].first, list[i].end>> \in long /\ list[i].end < bound
  /\ \A i, j \in 1..Len(list) : i < j => list[i].end < list[j].first
  /\ \A a, b \in Int : <<a, b>> \in long /\ b < bound =>
       \E i \in 1..Len(list) : list[i].first = a /\ list[i].end = b

\* The frames before this one are settled: no open segment reaches into them.
Bound == IF at = "scan" /\ start # None THEN start ELSE index

ScanInv ==
  /\ at \notin {"transcribe", "done"} => Sighted
  /\ FoundIn(segments, Bound, Long)

LEMMA VoicedTyped ==
  ASSUME upload \in Uploads
  PROVE  /\ VoicedFrames \subseteq 0..(Len(upload.voiced) - 1)
         /\ VoicedFrames \subseteq Nat
BY UploadFields DEF VoicedFrames

\* The detector's marks on the same audio.
LEMMA SameAudio ==
  ASSUME upload' = upload
  PROVE  VoicedFrames' = VoicedFrames /\ Islands' = Islands /\ Long' = Long
<1>1. VoicedFrames' = VoicedFrames
  BY DEF VoicedFrames
<1>2. Islands' = Islands
  BY <1>1 DEF Islands, Island
<1> QED
  BY <1>1, <1>2 DEF Long

LEMMA LongIsland ==
  ASSUME upload \in Uploads, NEW a, NEW b
  PROVE  <<a, b>> \in Long <=>
           /\ a \in VoicedFrames /\ b \in VoicedFrames /\ a <= b
           /\ Linked(a, b) /\ ~TooShort(a, b)
           /\ Silent(a - 1 - AllowedSilence, a - 1)
           /\ Silent(b + 1, b + 1 + AllowedSilence)
<1>1. Island(a, b) <=> /\ a \in VoicedFrames /\ b \in VoicedFrames
                       /\ Linked(a, b)
                       /\ Silent(a - 1 - AllowedSilence, a - 1)
                       /\ Silent(b + 1, b + 1 + AllowedSilence)
  BY DEF Island, Linked, Silent
<1>2. <<a, b>> \in Islands <=> /\ a \in VoicedFrames /\ b \in VoicedFrames
                               /\ a <= b /\ Island(a, b)
  BY DEF Islands
<1> HIDE DEF Island, Islands
<1> QED
  BY <1>1, <1>2 DEF Long

\* The island the marks hold is the only one that ends past its first frame, once the
\* silence after its last frame has lasted.
LEMMA OneIsland ==
  ASSUME upload \in Uploads,
         NEW s \in VoicedFrames, NEW l \in VoicedFrames, s <= l,
         Linked(s, l), Silent(s - 1 - AllowedSilence, s - 1),
         NEW n \in Nat, l <= n, Silent(l + 1, n),
         NEW a \in VoicedFrames, NEW b \in VoicedFrames, a <= b,
         Linked(a, b), Silent(a - 1 - AllowedSilence, a - 1),
         Silent(b + 1, b + 1 + AllowedSilence),
         s <= b, b <= n
  PROVE  a = s /\ b = l
<1>1. s \in Nat /\ l \in Nat /\ a \in Nat /\ b \in Nat /\ AllowedSilence \in Nat
  BY VoicedTyped, SizeAssumption
<1>2. b <= l
  BY <1>1 DEF Silent
<1>3. ~(b < l)
  <2> SUFFICES ASSUME b < l
               PROVE  FALSE
    OBVIOUS
  <2>1. CASE b + 1 + AllowedSilence <= l
    <3> DEFINE f == b + 1 + AllowedSilence
    <3>1. f \in s..l
      BY <1>1, <2>1
    <3>2. PICK v \in VoicedFrames : v \in s..f /\ f - v <= AllowedSilence
      BY <3>1 DEF Linked
    <3>3. v \in (b + 1)..(b + 1 + AllowedSilence)
      BY <1>1, <3>2
    <3> QED
      BY <3>2, <3>3 DEF Silent
  <2>2. CASE l < b + 1 + AllowedSilence
    <3>1. l \in (b + 1)..(b + 1 + AllowedSilence)
      BY <1>1, <2>2
    <3> QED
      BY <3>1 DEF Silent
  <2> QED
    BY <1>1, <2>1, <2>2
<1>4. ~(a < s)
  <2> SUFFICES ASSUME a < s
               PROVE  FALSE
    OBVIOUS
  <2>1. s - 1 \in a..b
    BY <1>1
  <2>2. PICK v \in VoicedFrames : v \in a..(s - 1) /\ (s - 1) - v <= AllowedSilence
    BY <2>1 DEF Linked
  <2>3. v \in (s - 1 - AllowedSilence)..(s - 1)
    BY <1>1, <2>2
  <2> QED
    BY <2>2, <2>3 DEF Silent
<1>5. ~(s < a)
  <2> SUFFICES ASSUME s < a
               PROVE  FALSE
    OBVIOUS
  <2>1. a - 1 \in s..l
    BY <1>1, <1>2
  <2>2. PICK v \in VoicedFrames : v \in s..(a - 1) /\ (a - 1) - v <= AllowedSilence
    BY <2>1 DEF Linked
  <2>3. v \in (a - 1 - AllowedSilence)..(a - 1)
    BY <1>1, <2>2
  <2> QED
    BY <2>2, <2>3 DEF Silent
<1> QED
  BY <1>1, <1>2, <1>3, <1>4, <1>5

\* Closing a segment settles the frames up to n, those of its silence included.
LEMMA AppendedFound ==
  ASSUME TypeOK, Marked, start # None, Sighted, FoundIn(segments, start, Long),
         NEW n \in Nat, last <= n, Silent(last + 1, n),
         Silent(last + 1, last + 1 + AllowedSilence)
  PROVE  FoundIn(Appended, n + 1, Long)
<1>1. /\ upload \in Uploads /\ start \in Nat /\ last \in Nat /\ start <= last
      /\ start \in VoicedFrames /\ last \in VoicedFrames /\ Linked(start, last)
      /\ Silent(start - 1 - AllowedSilence, start - 1)
  <2>1. upload \in Uploads /\ start <= last
    BY DEF TypeOK, Marked
  <2>2. start \in VoicedFrames /\ last \in VoicedFrames /\ Linked(start, last)
        /\ Silent(start - 1 - AllowedSilence, start - 1)
    BY DEF Sighted
  <2> QED
    BY <2>1, <2>2, VoicedTyped
<1>2. <<start, last>> \in Long <=> ~TooShort(start, last)
  BY <1>1, LongIsland
<1>3. ASSUME NEW a \in Int, NEW b \in Int, <<a, b>> \in Long, b < n + 1, ~(b < start)
      PROVE  a = start /\ b = last
  <2>1. /\ a \in VoicedFrames /\ b \in VoicedFrames /\ a <= b
        /\ Linked(a, b) /\ Silent(a - 1 - AllowedSilence, a - 1)
        /\ Silent(b + 1, b + 1 + AllowedSilence)
    BY <1>1, <1>3, LongIsland
  <2>2. start <= b /\ b <= n
    BY <1>1, <1>3
  <2> QED
    BY <1>1, <2>1, <2>2, OneIsland
<1>4. \A i \in 1..Len(segments) : segments[i].first \in Int /\ segments[i].end \in Int
  <2> DEFINE P == [first: 0..index, end: 0..index]
  <2>1. index \in Nat /\ segments \in Seq(P)
    BY <1>1, UploadFields DEF TypeOK
  <2>2. \A e \in P : e.first \in Int /\ e.end \in Int
    BY <2>1
  <2> HIDE DEF P
  <2>3. \A i \in 1..Len(segments) : segments[i] \in P
    BY <2>1
  <2> QED
    BY <2>2, <2>3
<1>5. CASE TooShort(start, last)
  <2>1. Appended = segments
    BY <1>5 DEF Appended
  <2>4. \A i \in 1..Len(segments) : segments[i].end < start
    BY Zenon DEF FoundIn
  <2>2. \A i \in 1..Len(segments) : segments[i].end < n + 1
    BY <1>1, <1>4, <2>4
  <2>3. ASSUME NEW a \in Int, NEW b \in Int, <<a, b>> \in Long, b < n + 1
        PROVE  \E i \in 1..Len(segments) : segments[i].first = a /\ segments[i].end = b
    <3>1. b < start
      BY <1>2, <1>3, <1>5, <2>3
    <3> QED
      BY <2>3, <3>1 DEF FoundIn
  <2> QED
    BY <2>1, <2>2, <2>3 DEF FoundIn
<1>6. CASE ~TooShort(start, last)
  <2> DEFINE e == [first |-> start, end |-> last]
             m == Len(segments)
  <2>1. Appended = Append(segments, e) /\ segments \in Seq([first: 0..index, end: 0..index])
    BY <1>6 DEF Appended, TypeOK
  <2>2. e.first = start /\ e.end = last
    OBVIOUS
  <2> HIDE DEF e
  <2>3. /\ m \in Nat /\ Len(Appended) = m + 1 /\ Appended[m + 1] = e
        /\ \A i \in 1..m : Appended[i] = segments[i]
    BY <2>1
  <2>4. \A i \in 1..(m + 1) : i \in 1..m \/ i = m + 1
    BY <2>3
  <2>5. /\ \A i \in 1..m : /\ <<segments[i].first, segments[i].end>> \in Long
                           /\ segments[i].end < start
        /\ \A i, j \in 1..m : i < j => segments[i].end < segments[j].first
        /\ \A a, b \in Int : <<a, b>> \in Long /\ b < start =>
             \E i \in 1..m : segments[i].first = a /\ segments[i].end = b
    BY DEF FoundIn
  <2> HIDE DEF m
  <2>6. ASSUME NEW i \in 1..(m + 1)
        PROVE  <<Appended[i].first, Appended[i].end>> \in Long /\ Appended[i].end < n + 1
    <3>1. CASE i \in 1..m
      BY <1>1, <1>4, <2>3, <2>5, <3>1 DEF m
    <3>2. CASE i = m + 1
      BY <1>1, <1>2, <1>6, <2>2, <2>3, <3>2
    <3> QED
      BY <2>4, <3>1, <3>2
  <2>7. ASSUME NEW i \in 1..(m + 1), NEW j \in 1..(m + 1), i < j
        PROVE  Appended[i].end < Appended[j].first
    <3>1. i \in 1..m
      BY <2>3, <2>7
    <3>2. CASE j \in 1..m
      BY <2>3, <2>5, <2>7, <3>1, <3>2
    <3>3. CASE j = m + 1
      BY <2>2, <2>3, <2>5, <3>1, <3>3
    <3> QED
      BY <2>4, <3>2, <3>3
  <2>8. ASSUME NEW a \in Int, NEW b \in Int, <<a, b>> \in Long, b < n + 1
        PROVE  \E i \in 1..(m + 1) : Appended[i].first = a /\ Appended[i].end = b
    <3>1. CASE b < start
      <4>1. PICK i \in 1..m : segments[i].first = a /\ segments[i].end = b
        BY <2>5, <2>8, <3>1
      <4>2. i \in 1..(m + 1) /\ Appended[i] = segments[i]
        BY <2>3
      <4> QED
        BY <4>1, <4>2
    <3>2. CASE ~(b < start)
      <4>1. a = start /\ b = last
        BY <1>3, <2>8, <3>2
      <4>2. m + 1 \in 1..(m + 1)
        BY <2>3
      <4> QED
        BY <2>2, <2>3, <4>1, <4>2
    <3> QED
      BY <3>1, <3>2
  <2> QED
    BY <2>3, <2>6, <2>7, <2>8 DEF FoundIn
<1> QED
  BY <1>5, <1>6

\* Frames without a voiced one settle nothing new.
LEMMA FoundFurther ==
  ASSUME upload \in Uploads, NEW list, NEW n \in Nat, FoundIn(list, n, Long),
         n \notin VoicedFrames,
         \A i \in 1..Len(list) : list[i].end \in Int
  PROVE  FoundIn(list, n + 1, Long)
<1>0. \A i \in 1..Len(list) : list[i].end < n
  BY Zenon DEF FoundIn
<1>1. \A i \in 1..Len(list) : list[i].end < n + 1
  BY <1>0
<1>2. ASSUME NEW a \in Int, NEW b \in Int, <<a, b>> \in Long, b < n + 1
      PROVE  b < n
  <2>1. b \in VoicedFrames
    BY <1>2, LongIsland
  <2> QED
    BY <1>2, <2>1
<1> QED
  BY <1>1, <1>2 DEF FoundIn

LEMMA InitScan == Init => ScanInv
<1> SUFFICES ASSUME Init
             PROVE  ScanInv
  OBVIOUS
<1>1. upload \in Uploads /\ AllowedSilence \in Nat /\ VoicedFrames \subseteq Nat
  BY VoicedTyped, SizeAssumption DEF Init
<1>2. index = 0 /\ start = None /\ segments = <<>> /\ Bound = 0 /\ Len(segments) = 0
  BY DEF Init, Bound
<1>3. Silent(index - 1 - AllowedSilence, index - 1)
  BY <1>1, <1>2 DEF Silent
<1>4. FoundIn(segments, 0, Long)
  <2>1. \A a, b \in Int : <<a, b>> \in Long => ~(b < 0)
    <3> SUFFICES ASSUME NEW a \in Int, NEW b \in Int, <<a, b>> \in Long
                 PROVE  ~(b < 0)
      OBVIOUS
    <3>1. b \in VoicedFrames
      BY <1>1, LongIsland
    <3> QED
      BY <1>1, <3>1
  <2> QED
    BY <1>2, <2>1 DEF FoundIn
<1> QED
  BY <1>2, <1>3, <1>4 DEF ScanInv, Sighted

\* The scan's invariant holds of every step: OneIsland at the close of a segment and
\* at the end of the audio.
LEMMA ScanStep == TypeInv /\ ScanInv /\ [Next]_vars => ScanInv'
<1> SUFFICES ASSUME TypeInv, ScanInv, [Next]_vars
             PROVE  ScanInv'
  OBVIOUS
<1>1. /\ upload \in Uploads /\ Len(upload.voiced) \in Nat /\ index \in Nat
      /\ AllowedSilence \in Nat /\ TypeOK /\ Staged
  BY UploadFields, SizeAssumption DEF TypeInv, TypeOK
<1>2. VoicedFrames \subseteq 0..(Len(upload.voiced) - 1) /\ VoicedFrames \subseteq Nat
  BY <1>1, VoicedTyped
<1>3. FoundIn(segments, Bound, Long)
  BY DEF ScanInv
<1>4. ASSUME at = "scan", index < Len(upload.voiced)
      PROVE  Voiced <=> index \in VoicedFrames
  BY <1>1, <1>4 DEF Voiced, VoicedFrames
<1>5. \A i \in 1..Len(segments) : segments[i].end \in Int
  <2> DEFINE P == [first: 0..index, end: 0..index]
  <2>1. segments \in Seq(P) /\ \A e \in P : e.end \in Int
    BY <1>1 DEF TypeOK
  <2> HIDE DEF P
  <2>2. \A i \in 1..Len(segments) : segments[i] \in P
    BY <2>1
  <2> QED
    BY <2>1, <2>2
<1>6. ASSUME upload' = upload, segments' = segments, Bound' = Bound
      PROVE  FoundIn(segments, Bound, Long)'
  BY <1>3, <1>6, SameAudio DEF FoundIn
<1>7. CASE TooLarge \/ ProviderMissing \/ InvalidAudio \/ Truncated \/ BuildService \/ Load
  <2>1. /\ UNCHANGED <<upload, index, start, last, segments>>
        /\ at \in {"upload", "load"} /\ start = None
    BY <1>1, <1>7 DEF TooLarge, ProviderMissing, InvalidAudio, Truncated, BuildService,
                      Load, scanVars, Staged
  <2>2. Bound' = Bound
    BY <2>1 DEF Bound
  <2>3. Sighted
    BY <2>1 DEF ScanInv
  <2>4. Sighted'
    BY <2>1, <2>3, SameAudio DEF Sighted, Silent, Linked
  <2> QED
    BY <1>6, <2>1, <2>2, <2>4 DEF ScanInv
<1>8. CASE VoicedFrame
  <2>1. /\ at = "scan" /\ at' = at /\ upload' = upload /\ index < Len(upload.voiced)
        /\ Voiced /\ index' = index + 1 /\ segments' = segments /\ last' = index
        /\ start' = IF start = None THEN index ELSE start
    BY <1>8 DEF VoicedFrame, Scanning
  <2>2. index \in VoicedFrames /\ index # None
    BY <1>1, <1>4, <2>1 DEF None
  <2>3. Sighted
    BY <2>1 DEF ScanInv
  <2>4. Bound' = Bound
    BY <2>1, <2>2 DEF Bound
  <2>5. /\ start' \in VoicedFrames /\ start' # None
        /\ Silent(start' - 1 - AllowedSilence, start' - 1)
        /\ Linked(start', index)
    <3>1. CASE start = None
      <4>1. Silent(index - 1 - AllowedSilence, index - 1)
        BY <2>3, <3>1 DEF Sighted
      <4>2. Linked(index, index)
        BY <1>1, <2>2 DEF Linked
      <4> QED
        BY <2>1, <2>2, <3>1, <4>1, <4>2
    <3>2. CASE start # None
      <4>1. /\ start \in VoicedFrames /\ last \in VoicedFrames
            /\ Silent(start - 1 - AllowedSilence, start - 1)
            /\ Linked(start, last) /\ index - 1 - last <= AllowedSilence
        BY <2>3, <3>2 DEF Sighted
      <4>2. start <= last /\ last < index
        BY <2>1, <3>2 DEF TypeInv, Marked
      <4>3. Linked(start, index)
        <5> SUFFICES ASSUME NEW f \in start..index
                     PROVE  \E v \in VoicedFrames : v \in start..f /\ f - v <= AllowedSilence
          BY DEF Linked
        <5>1. CASE f <= last
          <6>1. f \in start..last
            BY <1>2, <4>1, <5>1
          <6> QED
            BY <4>1, <6>1 DEF Linked
        <5>2. CASE last < f /\ f < index
          BY <1>1, <1>2, <4>1, <4>2, <5>2
        <5>3. CASE f = index
          BY <1>1, <1>2, <2>2, <4>1, <4>2, <5>3
        <5> QED
          BY <1>1, <1>2, <4>1, <5>1, <5>2, <5>3
      <4> QED
        BY <2>1, <3>2, <4>1, <4>3
    <3> QED
      BY <3>1, <3>2
  <2>6. Silent(index + 1, index) /\ index - index = 0
    BY <1>1 DEF Silent
  <2>7. Sighted'
    <3>1. last' + 1 = index + 1 /\ index' - 1 = index /\ index' - 1 - last' = 0
      BY <1>1, <2>1
    <3>2. Silent(start - 1 - AllowedSilence, start - 1)' /\ Linked(start, last)'
      BY <2>1, <2>5, SameAudio DEF Silent, Linked
    <3>3. Silent(last + 1, index - 1)'
      BY <2>1, <2>6, <3>1, SameAudio DEF Silent
    <3>4. start' \in VoicedFrames' /\ last' \in VoicedFrames' /\ 0 <= AllowedSilence
      BY <1>1, <2>1, <2>2, <2>5, SameAudio
    <3> QED
      BY <2>5, <3>1, <3>2, <3>3, <3>4 DEF Sighted
  <2> QED
    BY <1>6, <2>1, <2>4, <2>7 DEF ScanInv
<1>9. CASE SilentFrame
  <2>1. /\ at = "scan" /\ at' = at /\ upload' = upload /\ index < Len(upload.voiced)
        /\ ~Voiced /\ ~PauseOver
        /\ index' = index + 1 /\ segments' = segments /\ start' = start /\ last' = last
    BY <1>9 DEF SilentFrame, Scanning
  <2>2. index \notin VoicedFrames
    BY <1>4, <2>1
  <2>3. Sighted
    BY <2>1 DEF ScanInv
  <2>4. CASE start = None
    <3>1. Bound = index /\ Bound' = index + 1
      BY <2>1, <2>4 DEF Bound
    <3>2. FoundIn(segments, index + 1, Long)
      BY <1>1, <1>3, <1>5, <2>2, <3>1, FoundFurther
    <3>3. FoundIn(segments, Bound, Long)'
      BY <2>1, <3>1, <3>2, SameAudio
    <3>4. Silent(index - 1 - AllowedSilence, index - 1)
      BY <2>3, <2>4 DEF Sighted
    <3>5. Silent(index - AllowedSilence, index) /\ index' - 1 = index
      BY <1>1, <1>2, <2>1, <2>2, <3>4 DEF Silent
    <3>6. Sighted'
      BY <2>1, <2>4, <3>5, SameAudio DEF Sighted, Silent
    <3> QED
      BY <3>3, <3>6 DEF ScanInv
  <2>5. CASE start # None
    <3>1. /\ start \in VoicedFrames /\ last \in VoicedFrames
          /\ Silent(start - 1 - AllowedSilence, start - 1)
          /\ Linked(start, last) /\ Silent(last + 1, index - 1)
      BY <2>3, <2>5 DEF Sighted
    <3>2. index - last <= AllowedSilence
      BY <1>1, <1>2, <2>1, <2>5, <3>1 DEF PauseOver
    <3>3. Silent(last + 1, index) /\ index' - 1 = index
      BY <1>1, <1>2, <2>1, <2>2, <3>1 DEF Silent
    <3>4. Sighted'
      BY <2>1, <2>5, <3>1, <3>2, <3>3, SameAudio DEF Sighted, Silent, Linked
    <3>5. Bound' = Bound
      BY <2>1, <2>5 DEF Bound
    <3> QED
      BY <1>6, <2>1, <3>4, <3>5 DEF ScanInv
  <2> QED
    BY <2>4, <2>5
<1>10. CASE CloseSegment
  <2>1. /\ at = "scan" /\ at' = at /\ upload' = upload /\ index < Len(upload.voiced)
        /\ ~Voiced /\ start # None /\ index - last > AllowedSilence
        /\ index' = index + 1 /\ segments' = Appended /\ start' = None
    BY <1>10 DEF CloseSegment, Scanning, PauseOver
  <2>2. index \notin VoicedFrames
    BY <1>4, <2>1
  <2>3. Sighted /\ Marked /\ Bound = start /\ last < index
    BY <2>1 DEF ScanInv, TypeInv, Marked, Bound
  <2>4. /\ last \in VoicedFrames /\ Silent(last + 1, index - 1)
        /\ index - 1 - last <= AllowedSilence
    BY <2>1, <2>3 DEF Sighted
  <2>5. index = last + 1 + AllowedSilence
    BY <1>1, <1>2, <2>1, <2>4
  <2>6. Silent(last + 1, index)
    BY <1>1, <1>2, <2>2, <2>4 DEF Silent
  <2>7. FoundIn(Appended, index + 1, Long)
    <3>1. last <= index /\ Silent(last + 1, last + 1 + AllowedSilence)
      BY <1>1, <1>2, <2>3, <2>4, <2>5, <2>6
    <3>2. FoundIn(segments, start, Long)
      BY <1>3, <2>3
    <3> QED
      BY <1>1, <2>1, <2>3, <2>6, <3>1, <3>2, AppendedFound
  <2>8. Bound' = index + 1
    BY <2>1 DEF Bound
  <2>9. FoundIn(segments, Bound, Long)'
    BY <2>1, <2>7, <2>8, SameAudio
  <2>10. Sighted'
    <3>1. index' - 1 = index /\ index - AllowedSilence = last + 1
          /\ index' - 1 - AllowedSilence = last + 1
      BY <1>1, <1>2, <2>1, <2>4, <2>5
    <3> QED
      BY <2>1, <2>6, <3>1, SameAudio DEF Sighted, Silent
  <2> QED
    BY <2>9, <2>10 DEF ScanInv
<1>11. CASE EndOfAudio
  <2>1. /\ at = "scan" /\ at' = "transcribe" /\ upload' = upload
        /\ index = Len(upload.voiced) /\ index' = index /\ start' = start
        /\ segments' = IF start = None THEN segments ELSE Appended
    BY <1>11 DEF EndOfAudio
  <2>2. Bound' = index
    BY <2>1 DEF Bound
  <2>3. CASE start = None
    <3>1. Bound = index
      BY <2>3 DEF Bound
    <3>2. FoundIn(segments, Bound, Long)'
      BY <1>3, <2>1, <2>2, <2>3, <3>1, SameAudio
    <3> QED
      BY <2>1, <3>2 DEF ScanInv
  <2>4. CASE start # None
    <3>1. Sighted /\ Marked /\ Bound = start /\ last < index
      BY <2>1, <2>4 DEF ScanInv, TypeInv, Marked, Bound
    <3>2. last \in VoicedFrames /\ Silent(last + 1, index - 1)
      BY <2>4, <3>1 DEF Sighted
    <3>3. index - 1 \in Nat /\ last <= index - 1
          /\ Silent(last + 1, last + 1 + AllowedSilence)
      BY <1>1, <1>2, <2>1, <3>1, <3>2 DEF Silent
    <3>4. FoundIn(Appended, (index - 1) + 1, Long)
      BY <1>1, <1>3, <2>4, <3>1, <3>2, <3>3, AppendedFound
    <3>5. (index - 1) + 1 = index
      BY <1>1
    <3>6. FoundIn(segments, Bound, Long)'
      BY <2>1, <2>2, <2>4, <3>4, <3>5, SameAudio
    <3> QED
      BY <2>1, <3>6 DEF ScanInv
  <2> QED
    BY <2>3, <2>4
<1>12. CASE Transcribe
  <2>1. /\ UNCHANGED <<upload, index, start, last, segments>>
        /\ at = "transcribe" /\ at' = "done"
    BY <1>12 DEF Transcribe, Stub, Whisper, RecognizerFails, TranscriberUnavailable, Answer,
              scanVars
  <2>2. Bound' = Bound
    BY <2>1 DEF Bound
  <2> QED
    BY <1>6, <2>1, <2>2 DEF ScanInv
<1>13. CASE UNCHANGED vars
  <2>1. UNCHANGED <<at, upload, index, start, last, segments>>
    BY <1>13 DEF vars, scanVars
  <2>2. Bound' = Bound
    BY <2>1 DEF Bound
  <2>3. Sighted => Sighted'
    BY <2>1, SameAudio DEF Sighted, Silent, Linked
  <2> QED
    BY <1>6, <2>1, <2>2, <2>3 DEF ScanInv
<1> QED
  BY <1>7, <1>8, <1>9, <1>10, <1>11, <1>12, <1>13 DEF Next, Detect

\* The detector's segments, at the end of its pass.
LEMMA FoundAll ==
  ASSUME TypeInv, ScanInv, at = "transcribe"
  PROVE  SegmentsAreIslands
<1>1. upload \in Uploads /\ index = Len(upload.voiced) /\ DOMAIN segments = 1..Len(segments)
  BY DEF TypeInv, TypeOK, Staged
<1>2. FoundIn(segments, index, Long)
  BY DEF ScanInv, Bound
<1>3. VoicedFrames \subseteq 0..(index - 1) /\ VoicedFrames \subseteq Nat /\ index \in Nat
  BY <1>1, VoicedTyped, UploadFields
<1>4. \A i \in 1..Len(segments) : <<segments[i].first, segments[i].end>> \in Long
  BY <1>2, Zenon DEF FoundIn
<1>5. ASSUME NEW x \in Long
      PROVE  \E i \in 1..Len(segments) : <<segments[i].first, segments[i].end>> = x
  <2>1. x \in VoicedFrames \X VoicedFrames
    BY DEF Long, Islands
  <2>2. PICK a \in VoicedFrames, b \in VoicedFrames : x = <<a, b>>
    BY <2>1
  <2>3. a \in Int /\ b \in Int /\ b < index
    BY <1>3
  <2>4. \E i \in 1..Len(segments) : segments[i].first = a /\ segments[i].end = b
    BY <1>2, <1>5, <2>2, <2>3, Zenon DEF FoundIn
  <2> QED
    BY <2>2, <2>4
<1>6. {<<segments[i].first, segments[i].end>> : i \in DOMAIN segments} = Long
  BY <1>1, <1>4, <1>5
<1>7. \A i, j \in DOMAIN segments : i < j => segments[i].end < segments[j].first
  BY <1>1, <1>2, Zenon DEF FoundIn
<1>8. ASSUME NEW i \in Islands
      PROVE  LongEnough(i[1], i[2]) <=> ~TooShort(i[1], i[2])
  <2>1. i[1] \in Nat /\ i[2] \in Nat
    BY <1>3 DEF Islands
  <2> QED
    BY <2>1, SizeAssumption DEF LongEnough, TooShort
<1>9. Long = {i \in Islands : LongEnough(i[1], i[2])}
  BY <1>8 DEF Long
<1> QED
  BY <1>6, <1>7, <1>9 DEF SegmentsAreIslands

\* The one-pass scan finds exactly the stretches of speech that are long enough, in
\* order and once each, whatever the allowed silence and the minimum.
THEOREM SegmentsFound == Spec => []SegmentsAreIslands
<1>1. Init => TypeInv /\ ScanInv
  BY InitTyped, InitScan
<1>2. TypeInv /\ ScanInv /\ [Next]_vars => (TypeInv /\ ScanInv)'
  BY TypeStep, ScanStep
<1>3. TypeInv /\ ScanInv => SegmentsAreIslands
  BY FoundAll DEF SegmentsAreIslands
<1> QED
  BY <1>1, <1>2, <1>3, PTL DEF Spec

----------------------------------------------------------------------------
(***************************************************************************)
(* The samples. A detector that keeps no segment of a single frame, as the *)
(* code's, cannot be left without samples by the resampling.               *)
(***************************************************************************)
Ranges ==
  /\ \A k \in 1..Len(segments) :
       /\ segments[k].first \in Nat /\ segments[k].end \in Nat
       /\ segments[k].first <= segments[k].end
       /\ segments[k].end < Len(upload.voiced)
       /\ MinimumFrames > 1 => segments[k].first < segments[k].end
  /\ \A k, l \in 1..Len(segments) : k < l => segments[k].end < segments[l].first

\* What the first n segments' samples are.
Collected(list, n) ==
  /\ list \in Seq(Nat)
  /\ \A i \in 1..Len(list) :
       /\ list[i] < upload.present
       /\ \E k \in 1..n :
            list[i] \div FrameSize(upload.rate) \in segments[k].first..segments[k].end
  /\ \A p \in Nat :
       p < upload.present
         /\ (\E k \in 1..n :
               p \div FrameSize(upload.rate) \in segments[k].first..segments[k].end)
         => \E i \in 1..Len(list) : list[i] = p
  /\ \A i, j \in 1..Len(list) : i < j => list[i] < list[j]
  /\ n = 0 => list = <<>>
  /\ n > 0 /\ MinimumFrames > 1 => Len(list) >= FrameSize(upload.rate)

\* The scan's segments lie in the audio, in order.
LEMMA SegmentRanges == TypeInv /\ ScanInv => Ranges
<1> SUFFICES ASSUME TypeInv, ScanInv
             PROVE  Ranges
  OBVIOUS
<1>1. upload \in Uploads /\ MinimumFrames \in Nat /\ Len(upload.voiced) \in Nat
      /\ VoicedFrames \subseteq 0..(Len(upload.voiced) - 1)
  BY VoicedTyped, UploadFields, SizeAssumption DEF TypeInv, TypeOK
<1>2. FoundIn(segments, Bound, Long)
  BY DEF ScanInv
<1>3. ASSUME NEW k \in 1..Len(segments)
      PROVE  /\ segments[k].first \in Nat /\ segments[k].end \in Nat
             /\ segments[k].first <= segments[k].end
             /\ segments[k].end < Len(upload.voiced)
             /\ MinimumFrames > 1 => segments[k].first < segments[k].end
  <2> DEFINE a == segments[k].first
             b == segments[k].end
  <2>1. <<a, b>> \in Long
    BY <1>2, Zenon DEF FoundIn
  <2> HIDE DEF a, b
  <2>2. a \in VoicedFrames /\ b \in VoicedFrames /\ a <= b /\ ~TooShort(a, b)
    BY <1>1, <2>1, LongIsland
  <2>3. a \in Nat /\ b \in Nat /\ b < Len(upload.voiced)
    BY <1>1, <2>2
  <2>4. b - a + 1 >= MinimumFrames
    BY <1>1, <2>2, <2>3 DEF TooShort
  <2>5. MinimumFrames > 1 => a < b
    BY <1>1, <2>3, <2>4
  <2> QED
    BY <2>2, <2>3, <2>5 DEF a, b
<1>4. \A k, l \in 1..Len(segments) : k < l => segments[k].end < segments[l].first
  BY <1>2, Zenon DEF FoundIn
<1> QED
  BY <1>3, <1>4 DEF Ranges

\* The next segment's samples follow those before.
LEMMA CollectedNext ==
  ASSUME upload \in Uploads, Len(segments) \in Nat, Ranges,
         NEW n \in 0..(Len(segments) - 1), NEW list, Collected(list, n)
  PROVE  Collected(list \o Cut(segments[n + 1]), n + 1)
<1> DEFINE size == FrameSize(upload.rate)
           seg == segments[n + 1]
           cut == Cut(seg)
           both == list \o cut
           l == Len(list)
           c == Len(cut)
<1>1. size \in Nat \ {0} /\ upload.present \in Nat /\ Len(upload.voiced) \in Nat
  BY UploadFields
<1>2. n \in Nat /\ n + 1 \in 1..Len(segments)
  OBVIOUS
<1>3. /\ seg.first \in Nat /\ seg.end \in Nat /\ seg.first <= seg.end
      /\ seg.end < Len(upload.voiced) /\ (MinimumFrames > 1 => seg.first < seg.end)
      /\ \A k \in 1..n : segments[k].end < seg.first
  <2>1. \A k \in 1..n : k \in 1..Len(segments) /\ k < n + 1
    BY <1>2
  <2> QED
    BY <1>2, <2>1 DEF Ranges
<1>4. \A k \in 1..n : segments[k].end \in Nat /\ segments[k].first \in Nat
  BY <1>2 DEF Ranges
<1> HIDE DEF seg
<1>5. /\ cut \in Seq(Nat) /\ c \in Nat \ {0} /\ (MinimumFrames > 1 => c >= size)
      /\ \A i \in 1..c : /\ cut[i] = seg.first * size + i - 1
                         /\ cut[i] < upload.present
                         /\ cut[i] \div size \in seg.first..seg.end
      /\ \A x \in Nat : x < upload.present /\ x \div size \in seg.first..seg.end
           => \E i \in 1..c : cut[i] = x
  BY <1>3, CutFacts
<1> HIDE DEF cut
<1>6. list \in Seq(Nat) /\ l \in Nat
      /\ \A i \in 1..l : list[i] \in Nat /\ list[i] < upload.present
  BY DEF Collected
<1>7. /\ both \in Seq(Nat) /\ Len(both) = l + c
      /\ \A i \in 1..(l + c) : both[i] = IF i <= l THEN list[i] ELSE cut[i - l]
  BY <1>5, <1>6, ConcatProperties
<1>8. /\ \A i \in 1..l : \E k \in 1..n :
           list[i] \div size \in segments[k].first..segments[k].end
      /\ \A i, j \in 1..l : i < j => list[i] < list[j]
      /\ \A p \in Nat :
           p < upload.present
             /\ (\E k \in 1..n : p \div size \in segments[k].first..segments[k].end)
             => \E i \in 1..l : list[i] = p
  BY Zenon DEF Collected
<1>9. \A i \in 1..(l + c) : i \in 1..l \/ (~(i <= l) /\ i - l \in 1..c)
  BY <1>5, <1>6
<1>10. \A i \in 1..c : cut[i] \in Nat
  BY <1>5
<1> HIDE DEF both, l, c, size
<1>11. ASSUME NEW i \in 1..(l + c)
       PROVE  /\ both[i] < upload.present
              /\ \E k \in 1..(n + 1) :
                   both[i] \div size \in segments[k].first..segments[k].end
  <2>1. CASE i \in 1..l
    <3>1. both[i] = list[i]
      BY <1>6, <1>7, <2>1
    <3>2. PICK k \in 1..n : list[i] \div size \in segments[k].first..segments[k].end
      BY <1>8, <2>1
    <3>3. k \in 1..(n + 1)
      BY <1>2
    <3> QED
      BY <1>6, <2>1, <3>1, <3>2, <3>3
  <2>2. CASE ~(i <= l) /\ i - l \in 1..c
    <3>1. both[i] = cut[i - l]
      BY <1>7, <2>2
    <3>2. n + 1 \in 1..(n + 1)
      BY <1>2
    <3> QED
      BY <1>5, <2>2, <3>1, <3>2 DEF seg
  <2> QED
    BY <1>9, <2>1, <2>2
<1>12. ASSUME NEW i \in 1..(l + c), NEW j \in 1..(l + c), i < j
       PROVE  both[i] < both[j]
  <2>1. CASE i \in 1..l /\ j \in 1..l
    <3>1. both[i] = list[i] /\ both[j] = list[j]
      BY <1>6, <1>7, <2>1
    <3>2. list[i] < list[j]
      BY <1>8, <1>12, <2>1
    <3> QED
      BY <3>1, <3>2
  <2>2. CASE i \in 1..l /\ ~(j <= l) /\ j - l \in 1..c
    <3> DEFINE x == list[i]
               y == cut[j - l]
    <3>1. both[i] = x /\ both[j] = y /\ x \in Nat /\ y \in Nat
      BY <1>6, <1>7, <1>10, <2>2
    <3>2. PICK k \in 1..n : x \div size \in segments[k].first..segments[k].end
      BY <1>8, <2>2
    <3>3. y \div size \in seg.first..seg.end
      BY <1>5, <2>2
    <3> HIDE DEF x, y
    <3>4. x \div size \in Int /\ y \div size \in Int
      BY <1>1, <3>1, DivBounds
    <3>5. x \div size < y \div size
      BY <1>3, <1>4, <3>2, <3>3, <3>4
    <3>6. ASSUME y <= x
          PROVE  y \div size <= x \div size
      <4>1. x \in Int /\ y \in Int
        BY <3>1
      <4> QED
        BY <1>1, <3>6, <4>1, DivMonotonic
    <3> QED
      BY <3>1, <3>4, <3>5, <3>6
  <2>3. CASE ~(i <= l) /\ i - l \in 1..c /\ ~(j <= l) /\ j - l \in 1..c
    <3>1. both[i] = cut[i - l] /\ both[j] = cut[j - l]
      BY <1>7, <2>3
    <3>2. /\ cut[i - l] = seg.first * size + (i - l) - 1
          /\ cut[j - l] = seg.first * size + (j - l) - 1
      BY <1>5, <2>3
    <3>3. seg.first * size \in Nat
      BY <1>1, <1>3
    <3> QED
      BY <1>6, <1>12, <3>1, <3>2, <3>3
  <2>4. ~(~(i <= l) /\ j \in 1..l)
    BY <1>6, <1>12
  <2> QED
    BY <1>9, <2>1, <2>2, <2>3, <2>4
<1>14. ASSUME NEW p \in Nat, p < upload.present, NEW k \in 1..(n + 1),
              p \div size \in segments[k].first..segments[k].end
       PROVE  \E i \in 1..(l + c) : both[i] = p
  <2>1. CASE k \in 1..n
    <3>1. PICK i \in 1..l : list[i] = p
      BY <1>8, <1>14, <2>1
    <3>2. i \in 1..(l + c) /\ both[i] = p
      BY <1>5, <1>6, <1>7, <3>1
    <3> QED
      BY <3>2
  <2>2. CASE k = n + 1
    <3>1. PICK i \in 1..c : cut[i] = p
      BY <1>5, <1>14, <2>2 DEF seg
    <3>2. l + i \in 1..(l + c) /\ ~(l + i <= l) /\ (l + i) - l = i
      BY <1>5, <1>6
    <3>3. both[l + i] = p
      BY <1>7, <3>1, <3>2
    <3> QED
      BY <3>2, <3>3
  <2> QED
    BY <1>2, <2>1, <2>2
<1>13. n + 1 # 0 /\ (MinimumFrames > 1 => l + c >= size)
  <2>1. l \in Nat /\ c \in Nat /\ size \in Nat /\ (MinimumFrames > 1 => c >= size)
    BY <1>1, <1>5, <1>6
  <2> QED
    BY <1>2, <2>1
<1>15. Collected(both, n + 1)
  <2>1. \A p \in Nat :
          p < upload.present
            /\ (\E k \in 1..(n + 1) : p \div size \in segments[k].first..segments[k].end)
            => \E i \in 1..(l + c) : both[i] = p
    BY <1>14
  <2>2. Len(both) = l + c /\ both \in Seq(Nat)
    BY <1>7
  <2>3. /\ n + 1 = 0 => both = <<>>
        /\ n + 1 > 0 /\ MinimumFrames > 1 => Len(both) >= size
    BY <1>13, <2>2
  <2> QED
    BY <1>11, <1>12, <2>1, <2>2, <2>3, Zenon DEF Collected, size
<1> QED
  BY <1>15 DEF cut, seg, both

LEMMA SelectedCollected ==
  ASSUME upload \in Uploads, Len(segments) \in Nat, DOMAIN segments = 1..Len(segments),
         Ranges
  PROVE  Collected(Selected, Len(segments))
<1> DEFINE L == Len(segments)
           S == {n \in 0..L : Collected(UpTo[n], n)}
<1>1. /\ \A n \in 0..L : UpTo[n] = IF n = 0 THEN <<>> ELSE UpTo[n - 1] \o Cut(segments[n])
      /\ Selected = UpTo[L]
  BY UpToUnfolds
<1>2. L \in Nat
  OBVIOUS
<1>3. 0 \in S
  <2>1. UpTo[0] = <<>> /\ 0 \in 0..L
    BY <1>1, <1>2
  <2>2. <<>> \in Seq(Nat) /\ Len(<<>>) = 0 /\ 1..0 = {}
    OBVIOUS
  <2>3. Collected(<<>>, 0)
    BY <2>2 DEF Collected
  <2> QED
    BY <2>1, <2>3
<1>4. ASSUME NEW n \in 0..(L - 1), n \in S
      PROVE  n + 1 \in S
  <2>1. n + 1 \in 0..L /\ n + 1 # 0 /\ (n + 1) - 1 = n
    BY <1>2
  <2>2. UpTo[n + 1] = UpTo[n] \o Cut(segments[n + 1])
    BY <1>1, <2>1
  <2>3. Collected(UpTo[n], n)
    BY <1>4
  <2>4. Collected(UpTo[n + 1], n + 1)
    BY <2>2, <2>3, CollectedNext
  <2> QED
    BY <2>1, <2>4
<1> HIDE DEF S, L
<1>5. L \in S
  BY <1>2, <1>3, <1>4, UpwardInduction
<1> QED
  BY <1>1, <1>5 DEF S, L

\* PreparedFromSpeech, said of the samples a preparation is left with.
Before(p) == Cardinality({q \in Spoken : q < p})

InTime(samples) ==
  /\ samples # <<>> =>
       2 * Len(samples) * upload.rate - 2 * Cardinality(Spoken) * TargetRate
         \in -upload.rate..upload.rate
  /\ \A i \in DOMAIN samples :
       /\ samples[i] \in Spoken
       /\ Before(samples[i]) * TargetRate <= (i - 1) * upload.rate
       /\ (i - 1) * upload.rate < (Before(samples[i]) + 1) * TargetRate

\* What n values in rising order are: n values.
LEMMA RisingCounted ==
  ASSUME NEW m \in Nat, NEW f, \A i \in 1..m : f[i] \in Nat,
         \A i, j \in 1..m : i < j => f[i] < f[j]
  PROVE  Cardinality({f[i] : i \in 1..m}) = m
<1> DEFINE T == {f[i] : i \in 1..m}
           g == [i \in 1..m |-> f[i]]
<1>1. g \in [1..m -> T] /\ \A i \in 1..m : g[i] = f[i]
  OBVIOUS
<1>2. \A t \in T : \E i \in 1..m : g[i] = t
  OBVIOUS
<1>3. ASSUME NEW i \in 1..m, NEW j \in 1..m, g[i] = g[j]
      PROVE  i = j
  <2>1. i \in Int /\ j \in Int /\ f[i] = f[j] /\ f[i] \in Nat /\ f[j] \in Nat
    BY <1>1, <1>3
  <2>2. ~(i < j) /\ ~(j < i)
    BY <2>1
  <2> QED
    BY <2>1, <2>2
<1> HIDE DEF g, T
<1>4. g \in Bijection(1..m, T)
  BY <1>1, <1>2, <1>3 DEF Bijection, Injection, Surjection, IsInjective
<1>5. ExistsBijection(1..m, T)
  BY <1>4 DEF ExistsBijection
<1> QED
  BY <1>5, FS_CountingElements DEF T

\* In a rising list of the members of a set, a member's place is how many are less.
LEMMA PlaceIsRank ==
  ASSUME NEW list \in Seq(Nat), NEW S, S = {list[i] : i \in 1..Len(list)},
         \A i, j \in 1..Len(list) : i < j => list[i] < list[j]
  PROVE  /\ Cardinality(S) = Len(list)
         /\ \A i \in 1..Len(list) : Cardinality({q \in S : q < list[i]}) = i - 1
<1> DEFINE L == Len(list)
<1>1. L \in Nat /\ \A i \in 1..L : list[i] \in Nat
  OBVIOUS
<1> HIDE DEF L
<1>2. \A i, j \in 1..L : i < j => list[i] < list[j]
  BY DEF L
<1>3. Cardinality(S) = L
  BY <1>1, <1>2, RisingCounted DEF L
<1>4. ASSUME NEW i \in 1..L
      PROVE  Cardinality({q \in S : q < list[i]}) = i - 1
  <2>1. i - 1 \in Nat /\ \A j \in 1..(i - 1) : j \in 1..L /\ j < i
    BY <1>1
  <2>2. \A j \in 1..L : list[j] < list[i] <=> j \in 1..(i - 1)
    <3> SUFFICES ASSUME NEW j \in 1..L
                 PROVE  list[j] < list[i] <=> j \in 1..(i - 1)
      OBVIOUS
    <3>1. list[j] \in Nat /\ list[i] \in Nat /\ (j < i => list[j] < list[i])
          /\ (i < j => list[i] < list[j]) /\ (i = j => list[i] = list[j])
      BY <1>1, <1>2
    <3>2. i \in Int /\ j \in Int /\ 1 <= j
      OBVIOUS
    <3> QED
      BY <3>1, <3>2
  <2>3. {q \in S : q < list[i]} = {list[j] : j \in 1..(i - 1)}
    BY <2>1, <2>2 DEF L
  <2>4. \A j \in 1..(i - 1) : list[j] \in Nat
    BY <1>1, <2>1
  <2>5. \A j, k \in 1..(i - 1) : j < k => list[j] < list[k]
    BY <1>2, <2>1
  <2>6. Cardinality({list[j] : j \in 1..(i - 1)}) = i - 1
    BY <2>1, <2>4, <2>5, RisingCounted
  <2> QED
    BY <2>3, <2>6
<1> QED
  BY <1>3, <1>4 DEF L

LEMMA ResampledInTime ==
  ASSUME TypeInv, ScanInv
  PROVE  /\ InTime(Resampled(Selected, upload.rate))
         /\ segments = <<>> => Resampled(Selected, upload.rate) = <<>>
         /\ MinimumFrames > 1 /\ Resampled(Selected, upload.rate) = <<>> => segments = <<>>
<1> DEFINE in == Selected
           L == Len(segments)
           size == FrameSize(upload.rate)
<1>1. /\ upload \in Uploads /\ upload.rate \in Nat \ {0} /\ index \in Nat
      /\ segments \in Seq([first: 0..index, end: 0..index])
      /\ size \in Nat \ {0} /\ size >= upload.rate /\ upload.present \in Nat
  <2>1. upload \in Uploads /\ Len(upload.voiced) \in Nat /\ upload.rate \in Nat \ {0}
        /\ FrameLength \in Nat \ {0} /\ upload.present \in Nat
    BY UploadFields, SizeAssumption DEF TypeInv, TypeOK
  <2>2. FrameLength * upload.rate \in Nat \ {0} /\ FrameLength * upload.rate >= upload.rate
    BY <2>1
  <2> QED
    BY <2>1, <2>2 DEF TypeInv, TypeOK, FrameSize
<1>2. L \in Nat /\ DOMAIN segments = 1..L /\ (segments = <<>> <=> L = 0)
  <2> DEFINE P == [first: 0..index, end: 0..index]
  <2>1. segments \in Seq(P)
    BY <1>1
  <2> HIDE DEF P
  <2> QED
    BY <2>1, EmptySeq
<1>3. Collected(in, L)
  BY <1>1, <1>2, SegmentRanges, SelectedCollected
<1> HIDE DEF in
<1>4. /\ in \in Seq(Nat)
      /\ \A i \in 1..Len(in) :
           /\ in[i] < upload.present
           /\ \E k \in 1..L : in[i] \div size \in segments[k].first..segments[k].end
      /\ \A p \in Nat :
           p < upload.present
             /\ (\E k \in 1..L : p \div size \in segments[k].first..segments[k].end)
             => \E i \in 1..Len(in) : in[i] = p
      /\ \A i, j \in 1..Len(in) : i < j => in[i] < in[j]
  BY <1>3, Zenon DEF Collected
<1>5. (L = 0 => in = <<>>) /\ (L > 0 /\ MinimumFrames > 1 => Len(in) >= size)
  BY <1>3 DEF Collected
<1>6. Spoken = {in[i] : i \in 1..Len(in)}
  <2> DEFINE Covered(p) ==
               \E k \in 1..L : p \div size \in segments[k].first..segments[k].end
  <2>0. Spoken = {p \in 0..(upload.present - 1) : Covered(p)}
    BY <1>2 DEF Spoken
  <2>5. \A i \in 1..Len(in) : in[i] \in Nat /\ in[i] < upload.present /\ Covered(in[i])
    BY <1>4
  <2>6. \A p \in Nat : p < upload.present /\ Covered(p)
          => \E i \in 1..Len(in) : in[i] = p
    BY <1>4
  <2> HIDE DEF Covered, size, L
  <2>7. upload.present \in Nat
    BY <1>1
  <2>1. \A p \in Spoken : p \in Nat /\ p < upload.present /\ Covered(p)
    BY <2>0, <2>7
  <2>3. \A i \in 1..Len(in) : in[i] \in Spoken
    BY <2>0, <2>5, <2>7
  <2>4. \A p \in Spoken : \E i \in 1..Len(in) : in[i] = p
    BY <2>1, <2>6
  <2> QED
    BY <2>3, <2>4
<1>7. Cardinality(Spoken) = Len(in) /\ \A k \in 1..Len(in) : Before(in[k]) = k - 1
  BY <1>4, <1>6, PlaceIsRank DEF Before
<1> DEFINE o == Resampled(in, upload.rate)
<1>8. /\ o \in Seq(Nat)
      /\ \A i \in 1..Len(o) :
           \E k \in 1..Len(in) :
             /\ o[i] = in[k]
             /\ (k - 1) * TargetRate <= (i - 1) * upload.rate
             /\ (i - 1) * upload.rate < k * TargetRate
      /\ 2 * Len(o) * upload.rate - 2 * Len(in) * TargetRate \in -upload.rate..upload.rate
      /\ in = <<>> => o = <<>>
      /\ Len(in) >= upload.rate => o # <<>>
  BY <1>1, <1>4, ResampledFacts
<1> HIDE DEF o
<1>9. DOMAIN o = 1..Len(o)
  BY <1>8
<1>10. ASSUME NEW i \in 1..Len(o)
       PROVE  /\ o[i] \in Spoken
              /\ Before(o[i]) * TargetRate <= (i - 1) * upload.rate
              /\ (i - 1) * upload.rate < (Before(o[i]) + 1) * TargetRate
  <2>1. PICK k \in 1..Len(in) :
           /\ o[i] = in[k]
           /\ (k - 1) * TargetRate <= (i - 1) * upload.rate
           /\ (i - 1) * upload.rate < k * TargetRate
    BY <1>8
  <2>2. Before(o[i]) = k - 1 /\ o[i] \in Spoken
    BY <1>6, <1>7, <2>1
  <2>3. k \in Int /\ (k - 1) + 1 = k
    BY <1>4
  <2> QED
    BY <2>1, <2>2, <2>3
<1>11. InTime(o)
  BY <1>7, <1>8, <1>9, <1>10 DEF InTime
<1>12. /\ segments = <<>> => o = <<>>
       /\ MinimumFrames > 1 /\ o = <<>> => segments = <<>>
  <2>1. L = 0 => o = <<>>
    BY <1>5, <1>8
  <2>2. L > 0 /\ MinimumFrames > 1 => o # <<>>
    <3>1. L > 0 /\ MinimumFrames > 1 => Len(in) >= upload.rate
      BY <1>1, <1>4, <1>5
    <3> QED
      BY <1>8, <3>1
  <2> QED
    BY <1>2, <2>1, <2>2
<1> QED
  BY <1>11, <1>12 DEF o, in

----------------------------------------------------------------------------
(***************************************************************************)
(* The answer: what was prepared, and who was asked, by then.              *)
(***************************************************************************)
Answered ==
  at = "done" =>
    /\ InTime(prepared)
    /\ status = 200 /\ provider = "faster_whisper" =>
         /\ segments = <<>> => prepared = <<>>
         /\ MinimumFrames > 1 /\ prepared = <<>> => segments = <<>>
    /\ consulted => ~upload.oversized /\ Supported(upload) /\ upload.present = upload.declared
    /\ heard => segments # <<>> /\ consulted /\ status = 200

LEMMA NothingPrepared == InTime(<<>>)
<1>1. DOMAIN <<>> = {}
  OBVIOUS
<1> QED
  BY <1>1 DEF InTime

LEMMA AnsweredStep == TypeInv /\ ScanInv /\ Answered /\ [Next]_vars => Answered'
<1> SUFFICES ASSUME TypeInv, ScanInv, Answered, [Next]_vars
             PROVE  Answered'
  OBVIOUS
<1>1. Staged /\ upload \in Uploads /\ provider \in Providers
  BY DEF TypeInv, TypeOK
<1>3. CASE at' # "done"
  BY <1>3 DEF Answered
<1>4. CASE TooLarge \/ ProviderMissing \/ InvalidAudio \/ Truncated
  <2>1. /\ prepared' = <<>> /\ status' # 200 /\ ~consulted' /\ ~heard'
    BY <1>1, <1>4 DEF TooLarge, ProviderMissing, InvalidAudio, Truncated, Answer, Staged
  <2>2. InTime(prepared)'
    <3>1. DOMAIN <<>> = {}
      OBVIOUS
    <3> QED
      BY <2>1, <3>1 DEF InTime
  <2> QED
    BY <2>1, <2>2 DEF Answered
<1>5. CASE Stub \/ TranscriberUnavailable
  <2>1. /\ at = "transcribe" /\ UNCHANGED <<upload, provider, segments, prepared>>
        /\ prepared = <<>> /\ ~heard
        /\ ~upload.oversized /\ Supported(upload) /\ upload.present = upload.declared
    BY <1>1, <1>5 DEF Stub, TranscriberUnavailable, Answer, scanVars, Staged
  <2>2. InTime(prepared)'
    <3>1. DOMAIN <<>> = {}
      OBVIOUS
    <3> QED
      BY <2>1, <3>1 DEF InTime
  <2>3. status' = 200 => provider' # "faster_whisper"
    BY <1>5, <2>1 DEF Stub, TranscriberUnavailable, Answer
  <2>4. consulted' /\ (heard' => segments' # <<>> /\ status' = 200)
    <3>1. CASE Stub
      <4>1. consulted' = TRUE /\ heard' = (segments # <<>>) /\ status' = 200
        BY <3>1 DEF Stub, Answer
      <4> QED
        BY <2>1, <4>1, Zenon
    <3>2. CASE TranscriberUnavailable
      BY <2>1, <3>2 DEF TranscriberUnavailable
    <3> QED
      BY <1>5, <3>1, <3>2
  <2>5. ~upload'.oversized /\ Supported(upload)' /\ upload'.present = upload'.declared
    BY <2>1 DEF Supported
  <2> QED
    BY <2>2, <2>3, <2>4, <2>5 DEF Answered
<1>6. CASE Whisper \/ RecognizerFails
  <2> DEFINE out == Resampled(Selected, upload.rate)
  <2>1. /\ at = "transcribe" /\ UNCHANGED <<upload, provider, segments>>
        /\ ~upload.oversized /\ Supported(upload) /\ upload.present = upload.declared
        /\ prepared' = out /\ ~heard
    BY <1>1, <1>6 DEF Whisper, RecognizerFails, Answer, scanVars, Staged
  <2>2. InTime(out) /\ (segments = <<>> => out = <<>>)
        /\ (MinimumFrames > 1 /\ out = <<>> => segments = <<>>)
    BY ResampledInTime
  <2> HIDE DEF out
  <2>3. InTime(prepared)'
    <3>1. Spoken' = Spoken /\ (\A p : Before(p)' = Before(p)) /\ upload'.rate = upload.rate
      BY <2>1 DEF Spoken, Before
    <3> QED
      BY <2>1, <2>2, <3>1 DEF InTime
  <2>4. /\ segments' = <<>> => prepared' = <<>>
        /\ MinimumFrames > 1 /\ prepared' = <<>> => segments' = <<>>
    BY <2>1, <2>2
  <2>5. heard' => consulted' /\ segments' # <<>> /\ status' = 200
    <3>1. CASE Whisper
      <4>1. /\ status' = 200 /\ consulted' = (prepared' # <<>>)
            /\ heard' \in IF prepared' = <<>> THEN {FALSE} ELSE BOOLEAN
        BY <3>1 DEF Whisper, Answer
      <4>2. heard' => prepared' # <<>>
        BY <4>1
      <4> QED
        BY <2>4, <4>1, <4>2, Zenon
    <3>2. CASE RecognizerFails
      BY <2>1, <3>2 DEF RecognizerFails
    <3> QED
      BY <1>6, <3>1, <3>2
  <2>6. ~upload'.oversized /\ Supported(upload)' /\ upload'.present = upload'.declared
    BY <2>1 DEF Supported
  <2> QED
    BY <2>3, <2>4, <2>5, <2>6 DEF Answered
<1>7. CASE UNCHANGED vars
  BY <1>7 DEF vars, scanVars, Answered, InTime, Before, Spoken, Supported
<1>8. CASE BuildService \/ Load \/ Detect
  <2>1. at' # "done"
    BY <1>1, <1>8 DEF BuildService, Load, Detect, VoicedFrame, SilentFrame, CloseSegment,
                      EndOfAudio, Scanning
  <2> QED
    BY <1>3, <2>1
<1> QED
  BY <1>4, <1>5, <1>6, <1>7, <1>8 DEF Next, Transcribe

LEMMA Invariants == Spec => [](TypeInv /\ ScanInv /\ Answered)
<1>1. Init => TypeInv /\ ScanInv /\ Answered
  BY InitTyped, InitScan DEF Init, Answered
<1>2. TypeInv /\ ScanInv /\ Answered /\ [Next]_vars => (TypeInv /\ ScanInv /\ Answered)'
  BY TypeStep, ScanStep, AnsweredStep
<1> QED
  BY <1>1, <1>2, PTL DEF Spec

\* The recognizer is given the audio of the segments found, at its own rate, with every
\* sample at its time and none of the silence around them, and nothing only if nothing
\* was found. A detector that
\* kept a segment of one frame could lose it: cut to a sample, it may be resampled
\* to none. EnergyVoiceActivityDetector is built with its default of three frames.
THEOREM PreparedIsSpeech ==
  ASSUME MinimumFrames > 1
  PROVE  Spec => []PreparedFromSpeech
<1>1. TypeInv /\ Answered => PreparedFromSpeech
  <2> SUFFICES ASSUME TypeInv, Answered
               PROVE  PreparedFromSpeech
    OBVIOUS
  <2>1. CASE at = "done"
    BY <2>1 DEF Answered, InTime, Before, PreparedFromSpeech
  <2>2. CASE at # "done"
    <3>1. prepared = <<>> /\ status = 0
      BY <2>2 DEF TypeInv, Staged
    <3>2. InTime(prepared)
      BY <3>1, NothingPrepared
    <3> QED
      BY <3>1, <3>2 DEF InTime, Before, PreparedFromSpeech
  <2> QED
    BY <2>1, <2>2
<1> QED
  BY <1>1, Invariants, PTL

\* Whatever the client sends, a provider is consulted only about whole, supported
\* audio within the limits, and no text is made of audio without speech.
THEOREM ProviderIsGuarded == Spec => []RejectedBeforeProvider
<1>1. TypeInv /\ ScanInv /\ Answered => RejectedBeforeProvider
  <2> SUFFICES ASSUME TypeInv, ScanInv, Answered
               PROVE  RejectedBeforeProvider
    OBVIOUS
  <2>1. CASE at = "done"
    <3>1. consulted => ~upload.oversized /\ Supported(upload) /\ upload.present = upload.declared
      BY <2>1 DEF Answered
    <3>2. heard => segments # <<>> /\ consulted /\ status = 200
      BY <2>1 DEF Answered
    <3>3. segments # <<>> => Islands # {}
      <4> DEFINE P == [first: 0..index, end: 0..index]
      <4>1. segments \in Seq(P)
        BY DEF TypeInv, TypeOK
      <4> HIDE DEF P
      <4>2. segments # <<>> => 1 \in 1..Len(segments)
        BY <4>1
      <4>3. 1 \in 1..Len(segments) => <<segments[1].first, segments[1].end>> \in Long
        BY Zenon DEF ScanInv, FoundIn
      <4> QED
        BY <4>2, <4>3 DEF Long
    <3> QED
      BY <3>1, <3>2, <3>3 DEF Supported, RejectedBeforeProvider
  <2>2. CASE at # "done"
    BY <2>2 DEF TypeInv, Staged, RejectedBeforeProvider
  <2> QED
    BY <2>1, <2>2
<1> QED
  BY <1>1, Invariants, PTL
================================================================================
