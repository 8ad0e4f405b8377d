------------------------- MODULE ResearchStudy_proofs -------------------------
(***************************************************************************)
(* Proofs about the intent study and the benchmark under it: its test      *)
(* cases are held out (HeldOut), what it selected was the best of what it  *)
(* compared (SelectionHonest), an audit vouches for the reports that       *)
(* follow it (AuditVouches) and passes what the generator made             *)
(* (GeneratedPasses).                                                      *)
(*                                                                         *)
(* None is about what a recursive definition computes; but a selection is  *)
(* a CHOOSE among scores, and needs a first among them. So a score must be *)
(* shown to be a number although it is a fold over a set, and the          *)
(* manifests to be finite although the generator's is a flattened          *)
(* sequence. Both are inductions, stated for a set of the values that have *)
(* the property, as in the lemmas that come first.                         *)
(***************************************************************************)
EXTENDS ResearchStudy, FiniteSetTheorems, SequenceTheorems, TLAPS

----------------------------------------------------------------------------
(***************************************************************************)
(* Induction, over naturals and over finite sets.                          *)
(***************************************************************************)

\* Every non-empty set of naturals has a least element ...
LEMMA LeastOf ==
  ASSUME NEW T \in SUBSET Nat, T # {}
  PROVE  \E m \in T : \A k \in T : m <= k
<1> DEFINE R == {ss \in Nat \X Nat : ss[1] < ss[2]}
<1>1. IsWellFoundedOn(R, Nat)
  BY NatLessThanWellFounded DEF OpToRel
<1>2. \A x, y \in Nat : y < x => <<y, x>> \in R
  OBVIOUS
<1> HIDE DEF R
<1>3. PICK m \in T : \A k \in T : ~(<<k, m>> \in R)
  BY <1>1, WFMin
<1>4. \A k \in T : ~(k < m) /\ k \in Nat /\ m \in Nat
  BY <1>2, <1>3
<1> QED
  BY <1>4

\* ... so a set with 0, and with n + 1 whenever it has n < last, has all up to last.
LEMMA UpwardInduction ==
  ASSUME NEW final \in Nat, NEW S, 0 \in S,
         \A n \in 0..(final - 1) : n \in S => n + 1 \in S
  PROVE  final \in S
<1> SUFFICES ASSUME (0..final) \ S # {}
             PROVE  FALSE
  OBVIOUS
<1>0. (0..final) \ S \in SUBSET Nat
  OBVIOUS
<1>1. PICK m \in (0..final) \ S : \A k \in (0..final) \ S : m <= k
  BY <1>0, LeastOf
<1>2. m \in Nat /\ m # 0 /\ m - 1 \in 0..(final - 1) /\ m - 1 \in 0..final /\ ~(m <= m - 1)
  BY <1>1
<1>3. m - 1 \in S
  BY <1>1, <1>2
<1>4. (m - 1) + 1 = m
  BY <1>1
<1> QED
  BY <1>1, <1>2, <1>3, <1>4

\* A set of subsets of a finite set, with the empty one and closed under adding an
\* element, has all of them.
LEMMA SubsetInduction ==
  ASSUME NEW U, IsFiniteSet(U), NEW C \in SUBSET SUBSET U, {} \in C,
         \A A \in C : \A x \in U \ A : A \union {x} \in C
  PROVE  C = SUBSET U
<1> DEFINE N == {n \in Nat : \A A \in SUBSET U : Cardinality(A) = n => A \in C}
<1>1. 0 \in N
  BY FS_EmptySet, FS_Subset
<1>2. ASSUME NEW n \in Nat, n \in N
      PROVE  n + 1 \in N
  <2> SUFFICES ASSUME NEW A \in SUBSET U, Cardinality(A) = n + 1
               PROVE  A \in C
    OBVIOUS
  <2>1. IsFiniteSet(A)
    BY FS_Subset
  <2>2. PICK x \in A : TRUE
    BY FS_EmptySet, <2>1
  <2>3. Cardinality(A \ {x}) = n
    <3>1. Cardinality(A \ {x}) = Cardinality(A) - 1
      BY FS_RemoveElement, <2>1, <2>2
    <3> QED
      BY <3>1
  <2>4. A \ {x} \in C
    BY <1>2, <2>3
  <2>5. (A \ {x}) \union {x} = A /\ x \in U \ (A \ {x})
    BY <2>2
  <2> QED
    BY <2>4, <2>5
<1>3. ASSUME NEW A \in SUBSET U
      PROVE  A \in C
  <2>1. Cardinality(A) \in Nat
    BY FS_Subset, FS_CardinalityType
  <2>2. \A n \in 0..(Cardinality(A) - 1) : n \in N => n + 1 \in N
    BY <1>2
  <2> HIDE DEF N
  <2>3. Cardinality(A) \in N
    BY <1>1, <2>1, <2>2, UpwardInduction
  <2> QED
    BY <2>3 DEF N
<1> QED
  BY <1>3

----------------------------------------------------------------------------
(***************************************************************************)
(* The library's operators that the model uses.                            *)
(***************************************************************************)

\* A sequence of sequences, flattened, is a sequence of what they hold.
LEMMA FlattenedTyped ==
  ASSUME NEW P, NEW s \in Seq(Seq(P))
  PROVE  FlattenSeq(s) \in Seq(P)
<1> DEFINE L == Len(s)
           Fits(g, m) == g = [i \in 1..m |-> IF i = 1 THEN s[i] ELSE g[i - 1] \o s[i]]
           flatten == CHOOSE g : Fits(g, L)
           S == {m \in 0..L : \E g : Fits(g, m)}
<1>0. L \in Nat /\ \A i \in 1..L : s[i] \in Seq(P)
  OBVIOUS
<1>1. FlattenSeq(s) = IF L = 0 THEN s ELSE flatten[L]
  BY DEF FlattenSeq
<1> HIDE DEF L
<1>2. 0 \in S
  <2> DEFINE g == [i \in 1..0 |-> <<>>]
  <2>1. Fits(g, 0)
    OBVIOUS
  <2> HIDE DEF Fits, g
  <2>2. \E h : Fits(h, 0)
    BY <2>1
  <2> QED
    BY <2>2, <1>0
<1>3. ASSUME NEW m \in 0..(L - 1), m \in S
      PROVE  m + 1 \in S
  <2>1. PICK g : Fits(g, m)
    BY <1>3
  <2> DEFINE h == [i \in 1..(m + 1) |->
                     IF i <= m THEN g[i] ELSE IF m = 0 THEN s[1] ELSE g[m] \o s[m + 1]]
  <2>2. ASSUME NEW i \in 1..(m + 1)
        PROVE  h[i] = IF i = 1 THEN s[i] ELSE h[i - 1] \o s[i]
    <3>1. CASE i <= m
      <4>1. i \in 1..m /\ (i # 1 => i - 1 \in 1..(m + 1) /\ i - 1 <= m)
        BY <3>1
      <4>2. g[i] = IF i = 1 THEN s[i] ELSE g[i - 1] \o s[i]
        BY <2>1, <4>1
      <4> QED
        BY <3>1, <4>1, <4>2
    <3>2. CASE i = m + 1 /\ m = 0
      BY <3>2
    <3>3. CASE i = m + 1 /\ m # 0
      <4>1. i # 1 /\ i - 1 = m /\ ~(i <= m) /\ m \in 1..(m + 1) /\ m <= m
        BY <3>3
      <4> QED
        BY <3>3, <4>1
    <3> QED
      BY <3>1, <3>2, <3>3
  <2>3. Fits(h, m + 1)
    BY <2>2
  <2> HIDE DEF h, Fits
  <2>4. \E k : Fits(k, m + 1)
    BY <2>3
  <2>5. m + 1 \in 0..L
    BY <1>0
  <2> QED
    BY <2>4, <2>5
<1>4. L \in S
  <2> HIDE DEF S
  <2> QED
    BY <1>0, <1>2, <1>3, UpwardInduction
<1>5. Fits(flatten, L)
  <2>1. \E g : Fits(g, L)
    BY <1>4
  <2> HIDE DEF Fits
  <2> QED
    BY <2>1
<1> HIDE DEF flatten
<1>6. \A i \in 1..L : flatten[i] = IF i = 1 THEN s[i] ELSE flatten[i - 1] \o s[i]
  BY <1>5
<1> DEFINE T == {m \in 0..L : m = 0 \/ flatten[m] \in Seq(P)}
<1>7. 0 \in T
  BY <1>0
<1>8. ASSUME NEW m \in 0..(L - 1), m \in T
      PROVE  m + 1 \in T
  <2>1. m + 1 \in 1..L /\ m + 1 \in 0..L /\ s[m + 1] \in Seq(P)
    BY <1>0
  <2>2. CASE m = 0
    BY <1>6, <2>1, <2>2
  <2>3. CASE m # 0
    <3>1. flatten[m] \in Seq(P)
      BY <1>8, <2>3
    <3>2. flatten[m + 1] = flatten[m] \o s[m + 1]
      <4>1. m + 1 # 1 /\ (m + 1) - 1 = m
        BY <2>3
      <4> QED
        BY <1>6, <2>1, <4>1
    <3>3. flatten[m + 1] \in Seq(P)
      BY <3>1, <3>2, <2>1, ConcatProperties
    <3> QED
      BY <3>3, <2>1
  <2> QED
    BY <2>2, <2>3
<1>9. L \in T
  <2> HIDE DEF T
  <2> QED
    BY <1>0, <1>7, <1>8, UpwardInduction
<1> QED
  BY <1>0, <1>1, <1>9 DEF L

\* The element that a fold over s takes first.
Pick(s) == CHOOSE x \in s : TRUE
Total(f, S, g) ==
  g = [s \in SUBSET S |-> IF s = {} THEN 0 ELSE f[Pick(s)] + g[s \ {Pick(s)}]]

\* Taking an element at a time from a finite set of numbers gives their total.
LEMMA TotalTyped ==
  ASSUME NEW S, IsFiniteSet(S), NEW f \in [S -> Int]
  PROVE  /\ \E g : Total(f, S, g)
         /\ \A g : Total(f, S, g) => g[S] \in Int
<1> DEFINE K(n) == {s \in SUBSET S : Cardinality(s) <= n}
           Rest(s) == s \ {Pick(s)}
           Fits(g, n) == g = [s \in K(n) |->
                                IF s = {} THEN 0 ELSE f[Pick(s)] + g[Rest(s)]]
           N == Cardinality(S)
           E == {n \in 0..N : \E g : Fits(g, n)}
<1>1. N \in Nat /\ K(N) = SUBSET S
  BY FS_CardinalityType, FS_Subset
<1>2. ASSUME NEW s \in SUBSET S, s # {}
      PROVE  /\ Pick(s) \in s
             /\ Rest(s) \in SUBSET S
             /\ Cardinality(s) \in Nat /\ Cardinality(Rest(s)) = Cardinality(s) - 1
  <2>1. Pick(s) \in s
    BY <1>2 DEF Pick
  <2>2. IsFiniteSet(s) /\ Cardinality(s) \in Nat
    BY FS_Subset, FS_CardinalityType
  <2> QED
    BY <2>1, <2>2, FS_RemoveElement
<1>3. K(0) = {{}}
  <2>1. \A s \in SUBSET S : IsFiniteSet(s) /\ Cardinality(s) \in Nat
    BY FS_Subset, FS_CardinalityType
  <2> QED
    BY <2>1, FS_EmptySet
<1>4. \A n \in Nat : K(n) \subseteq K(n + 1)
  <2>1. \A s \in SUBSET S : Cardinality(s) \in Nat
    BY FS_Subset, FS_CardinalityType
  <2> QED
    BY <2>1
<1>5. \A n \in Nat : \A s \in K(n + 1) : s # {} => s \in SUBSET S /\ Rest(s) \in K(n)
  <2> SUFFICES ASSUME NEW n \in Nat, NEW s \in K(n + 1), s # {}
               PROVE  s \in SUBSET S /\ Rest(s) \in K(n)
    OBVIOUS
  <2> HIDE DEF Rest
  <2> QED
    BY <1>2
<1>6. \A n \in Nat : \A s \in K(n) : s # {} => Rest(s) \in K(n)
  <2> SUFFICES ASSUME NEW n \in Nat, NEW s \in K(n), s # {}
               PROVE  Rest(s) \in K(n)
    OBVIOUS
  <2> HIDE DEF Rest
  <2> QED
    BY <1>2
<1> HIDE DEF K, Rest, N
<1>7. \E g : Total(f, S, g)
  <2>1. 0 \in E
    <3> DEFINE g == [s \in K(0) |-> 0]
    <3>1. Fits(g, 0)
      BY <1>3
    <3> HIDE DEF Fits, g
    <3> QED
      BY <1>1, <3>1
  <2>2. ASSUME NEW n \in 0..(N - 1), n \in E
        PROVE  n + 1 \in E
    <3>0. n \in Nat /\ n + 1 \in 0..N
      BY <1>1
    <3>1. PICK g : Fits(g, n)
      BY <2>2
    <3> DEFINE h == [s \in K(n + 1) |-> IF s = {} THEN 0 ELSE f[Pick(s)] + g[Rest(s)]]
    <3>2. \A s \in K(n) : h[s] = g[s]
      BY <1>4, <3>0, <3>1
    <3>3. \A s \in K(n + 1) : s # {} => h[Rest(s)] = g[Rest(s)]
      <4> HIDE DEF h
      <4> QED
        BY <1>5, <3>0, <3>2
    <3>4. Fits(h, n + 1)
      BY <3>3
    <3> HIDE DEF Fits, h
    <3> QED
      BY <3>0, <3>4
  <2>3. N \in E
    <3> HIDE DEF E
    <3> QED
      BY <1>1, <2>1, <2>2, UpwardInduction
  <2>4. PICK g : Fits(g, N)
    BY <2>3
  <2> QED
    BY <1>1, <2>4 DEF Total, Rest
<1>8. ASSUME NEW g, Total(f, S, g)
      PROVE  g[S] \in Int
  <2> DEFINE I == {n \in 0..N : \A s \in K(n) : g[s] \in Int}
  <2>1. \A s \in SUBSET S : g[s] = IF s = {} THEN 0 ELSE f[Pick(s)] + g[Rest(s)]
    BY <1>8 DEF Total, Rest
  <2>2. 0 \in I
    <3>0. {} \in SUBSET S /\ 0 \in 0..N
      BY <1>1
    <3>1. g[{}] = 0 /\ 0 \in 0..N
      <4>1. g[{}] = IF {} = {} THEN 0 ELSE f[Pick({})] + g[Rest({})]
        BY <2>1, <3>0
      <4> QED
        BY <4>1, <3>0
    <3>2. \A s \in K(0) : g[s] = 0
      BY <1>3, <3>1
    <3> QED
      BY <3>1, <3>2
  <2>3. ASSUME NEW n \in 0..(N - 1), n \in I
        PROVE  n + 1 \in I
    <3>0. n \in Nat /\ n + 1 \in 0..N
      BY <1>1
    <3>1. ASSUME NEW s \in K(n + 1)
          PROVE  g[s] \in Int
      <4>0. s \in SUBSET S
        BY DEF K
      <4>1. CASE s = {}
        BY <2>1, <4>0, <4>1
      <4>2. CASE s # {}
        <5>1. Rest(s) \in K(n) /\ Pick(s) \in S
          BY <1>2, <1>5, <3>0, <4>0, <4>2
        <5>2. g[Rest(s)] \in Int /\ f[Pick(s)] \in Int
          BY <2>3, <5>1
        <5>3. g[s] = f[Pick(s)] + g[Rest(s)]
          BY <2>1, <4>0, <4>2
        <5> QED
          BY <5>2, <5>3
      <4> QED
        BY <4>1, <4>2
    <3> QED
      BY <3>0, <3>1
  <2>4. N \in I
    <3> HIDE DEF I
    <3> QED
      BY <1>1, <2>2, <2>3, UpwardInduction
  <2> QED
    BY <1>1, <2>4
<1> QED
  BY <1>7, <1>8

\* What a function makes of a finite set is finite.
LEMMA ImageFinite ==
  ASSUME NEW S, IsFiniteSet(S), NEW f, f = [x \in S |-> f[x]]
  PROVE  IsFiniteSet({f[x] : x \in S})
<1> DEFINE T == {f[x] : x \in S}
<1>1. f \in Surjection(S, T)
  BY DEF Surjection
<1> HIDE DEF T
<1>2. IsFiniteSet(T)
  BY <1>1, FS_Surjection
<1> QED
  BY <1>2 DEF T

\* A strict total order on a finite set has a first element.
LEMMA FirstExists ==
  ASSUME NEW T, IsFiniteSet(T), T # {}, NEW R,
         \A a, b \in T : a # b => <<a, b>> \in R \/ <<b, a>> \in R,
         \A a, b, c \in T : <<a, b>> \in R /\ <<b, c>> \in R => <<a, c>> \in R
  PROVE  \E a \in T : \A b \in T \ {a} : <<a, b>> \in R
<1> DEFINE C == {A \in SUBSET T : A # {} => \E a \in A : \A b \in A \ {a} : <<a, b>> \in R}
<1>1. {} \in C
  OBVIOUS
<1>2. ASSUME NEW A \in C, NEW x \in T \ A
      PROVE  A \union {x} \in C
  <2>1. CASE A = {}
    <3>1. A \union {x} = {x} /\ {x} \in SUBSET T
      BY <2>1
    <3> QED
      BY <3>1
  <2>2. CASE A # {}
    <3>1. PICK a \in A : \A b \in A \ {a} : <<a, b>> \in R
      BY <2>2
    <3>2. a \in T /\ a # x /\ A \union {x} \in SUBSET T
      BY <1>2, <3>1
    <3>3. CASE <<a, x>> \in R
      <4>1. \A b \in (A \union {x}) \ {a} : <<a, b>> \in R
        BY <3>1, <3>3
      <4> QED
        BY <3>2, <4>1
    <3>4. CASE <<x, a>> \in R
      <4>1. \A b \in (A \union {x}) \ {x} : <<x, b>> \in R
        BY <3>1, <3>2, <3>4
      <4> QED
        BY <3>2, <4>1
    <3> QED
      BY <3>2, <3>3, <3>4
  <2> QED
    BY <2>1, <2>2
<1>3. C = SUBSET T
  <2> HIDE DEF C
  <2>1. C \in SUBSET SUBSET T
    BY DEF C
  <2> QED
    BY <1>1, <1>2, <2>1, SubsetInduction
<1> QED
  BY <1>3

----------------------------------------------------------------------------
(***************************************************************************)
(* The manifests that a study may be run on.                               *)
(***************************************************************************)
BenchmarkSplits == {"development", "test"}

\* The generator writes finitely many cases, in the two splits.
LEMMA GeneratedFacts ==
  ASSUME NEW e \in Editions
  PROVE  /\ IsFiniteSet(Generated[e])
         /\ \A c \in Generated[e] : c.split \in BenchmarkSplits
         /\ \A c \in Generated[e] : \E v \in 1..4, t \in DOMAIN e : c = GeneratedCase(e, v, t)
<1> DEFINE P == {GeneratedCase(e, v, t) : v \in 1..4, t \in DOMAIN e}
           S == [v \in DOMAIN Voices |-> [t \in DOMAIN e |-> GeneratedCase(e, v, t)]]
<1>1. DOMAIN Voices = 1..4 /\ Len(Voices) = 4
  BY DEF Voices
<1>2. DOMAIN e = 1..Len(e) /\ Len(e) \in Nat
  BY EditionAssumption
<1>3. \A c \in P : c.split \in BenchmarkSplits
  <2>1. \A v \in 1..4 : Voices[v].split \in BenchmarkSplits
    BY DEF Voices, BenchmarkSplits
  <2>2. \A v \in 1..4, t \in DOMAIN e : GeneratedCase(e, v, t).split = Voices[v].split
    BY DEF GeneratedCase
  <2> QED
    BY <2>1, <2>2
<1>4. S \in Seq(Seq(P))
  <2>1. \A v \in 1..4, t \in DOMAIN e : GeneratedCase(e, v, t) \in P
    OBVIOUS
  <2> HIDE DEF P
  <2>2. \A v \in 1..4 : [t \in DOMAIN e |-> GeneratedCase(e, v, t)] \in Seq(P)
    BY <1>2, <2>1
  <2> QED
    BY <1>1, <2>2
<1>5. Generated[e] = Range(FlattenSeq(S))
  BY DEF Generated, Order, GeneratedOrder
<1>0. \A c \in P : \E v \in 1..4, t \in DOMAIN e : c = GeneratedCase(e, v, t)
  OBVIOUS
<1> HIDE DEF P, S
<1> DEFINE f == FlattenSeq(S)
<1>6. f \in Seq(P)
  BY <1>4, FlattenedTyped
<1> HIDE DEF f
<1>7. f = [i \in 1..Len(f) |-> f[i]] /\ Len(f) \in Nat /\ Range(f) = {f[i] : i \in 1..Len(f)}
      /\ \A i \in 1..Len(f) : f[i] \in P
  BY <1>6 DEF Range
<1>8. IsFiniteSet(1..Len(f))
  BY <1>7, FS_Interval
<1>9. IsFiniteSet(Range(f))
  BY <1>7, <1>8, ImageFinite
<1>10. \A c \in Generated[e] : c \in P
  BY <1>5, <1>7 DEF f
<1> QED
  BY <1>0, <1>3, <1>5, <1>9, <1>10 DEF f

\* So is every manifest that there may be, of finitely many cases.
LEMMA ManifestFacts ==
  ASSUME NEW m \in Manifests
  PROVE  IsFiniteSet(m) /\ \A c \in m : c.split \in BenchmarkSplits
<1>1. CASE m \in HandMade
  BY <1>1, HandMadeAssumption DEF BenchmarkSplits
<1>2. CASE m \in Range(Generated)
  <2>1. PICK e \in Editions : m = Generated[e]
    BY <1>2 DEF Range, Generated
  <2> QED
    BY <2>1, GeneratedFacts
<1> QED
  BY <1>1, <1>2 DEF Manifests

\* Neither a transcript nor an audio file is in both splits of a manifest.
Unleaked(m) ==
  \A c, d \in m : c.words = d.words \/ c.sha = d.sha => c.split = d.split

CrossingBy(code, groups) ==
  {[severity |-> "error", code |-> code, ids |-> Ids(g)] :
     g \in {h \in groups : Cardinality(Splits(h)) > 1}}
SameWords == {{c \in manifest : c.words = d.words} : d \in manifest}
SameAudio == {{c \in manifest : c.sha = d.sha} : d \in manifest}

\* The leakage, with the ways to share a value written out.
LEMMA LeakageUnfolds ==
  Leakage = CrossingBy("transcript_leakage", SameWords)
              \union CrossingBy("audio_leakage", SameAudio)
BY DEF Leakage, CrossSplit, Shared, CrossingBy, SameWords, SameAudio

\* What the audit calls leakage is all there is ...
LEMMA LeakageFound ==
  ASSUME manifest \in Manifests, \A i \in AuditIssues : i.severity # "error"
  PROVE  Unleaked(manifest)
<1>0. \A c \in manifest : c.split \in BenchmarkSplits
  BY ManifestFacts
<1>1. Leakage = {}
  <2>1. \A i \in Leakage : i.severity = "error"
    BY LeakageUnfolds DEF CrossingBy
  <2>2. Leakage \subseteq AuditIssues
    BY Zenon DEF AuditIssues
  <2> QED
    BY <2>1, <2>2
<1>2. ASSUME NEW h \in SUBSET manifest, NEW c \in h, NEW d \in h, c.split # d.split
      PROVE  Cardinality(Splits(h)) > 1
  <2>1. IsFiniteSet(BenchmarkSplits)
    <3>1. IsFiniteSet({"development"})
      BY FS_Singleton
    <3>2. BenchmarkSplits = {"development"} \union {"test"}
      BY DEF BenchmarkSplits
    <3> QED
      BY <3>1, <3>2, FS_AddElement
  <2>2. Splits(h) \in SUBSET BenchmarkSplits
    BY <1>0 DEF Splits
  <2>3. IsFiniteSet(Splits(h)) /\ Cardinality(Splits(h)) \in Nat
    BY <2>1, <2>2, FS_Subset, FS_CardinalityType
  <2>4. c.split \in Splits(h) /\ d.split \in Splits(h)
    BY DEF Splits
  <2>5. Cardinality(Splits(h)) # 0
    BY <2>3, <2>4, FS_EmptySet
  <2>6. Cardinality(Splits(h)) # 1
    <3>1. ASSUME NEW x, Splits(h) = {x}
          PROVE  FALSE
      BY <1>2, <2>4, <3>1
    <3> QED
      BY <2>3, <3>1, FS_Singleton
  <2> QED
    BY <2>3, <2>5, <2>6
<1>3. ASSUME NEW c \in manifest, NEW d \in manifest, c.words = d.words
      PROVE  c.split = d.split
  <2> DEFINE h == {b \in manifest : b.words = d.words}
  <2>1. Cardinality(Splits(h)) > 1 =>
          [severity |-> "error", code |-> "transcript_leakage", ids |-> Ids(h)] \in Leakage
    BY LeakageUnfolds DEF CrossingBy, SameWords, SameAudio
  <2>2. h \in SUBSET manifest /\ c \in h /\ d \in h
    BY <1>3
  <2> HIDE DEF h
  <2> QED
    BY <1>1, <1>2, <2>1, <2>2
<1>4. ASSUME NEW c \in manifest, NEW d \in manifest, c.sha = d.sha
      PROVE  c.split = d.split
  <2> DEFINE h == {b \in manifest : b.sha = d.sha}
  <2>1. Cardinality(Splits(h)) > 1 =>
          [severity |-> "error", code |-> "audio_leakage", ids |-> Ids(h)] \in Leakage
    BY LeakageUnfolds DEF CrossingBy, SameWords, SameAudio
  <2>2. h \in SUBSET manifest /\ c \in h /\ d \in h
    BY <1>4
  <2> HIDE DEF h
  <2> QED
    BY <1>1, <1>2, <2>1, <2>2
<1> QED
  BY <1>3, <1>4 DEF Unleaked

\* ... and it is leakage.
LEMMA LeakageReal ==
  ASSUME Unleaked(manifest)
  PROVE  Leakage = {}
<1>1. ASSUME NEW h, NEW d, \A c \in h : c.split = d.split
      PROVE  ~(Cardinality(Splits(h)) > 1)
  <2>1. IsFiniteSet({d.split}) /\ Cardinality({d.split}) = 1
    BY FS_Singleton
  <2>2. Splits(h) \in SUBSET {d.split}
    BY <1>1 DEF Splits
  <2>3. Cardinality(Splits(h)) <= 1 /\ Cardinality(Splits(h)) \in Nat
    BY <2>1, <2>2, FS_Subset, FS_CardinalityType
  <2> QED
    BY <2>3
<1>2. \A h \in SameWords \union SameAudio : \E d \in manifest : \A c \in h : c.split = d.split
  BY DEF SameWords, SameAudio, Unleaked
<1>3. \A h \in SameWords \union SameAudio : ~(Cardinality(Splits(h)) > 1)
  BY <1>1, <1>2
<1> QED
  BY <1>3, LeakageUnfolds DEF CrossingBy

----------------------------------------------------------------------------
(***************************************************************************)
(* The test cases are held out.                                            *)
(***************************************************************************)
\* The inductive invariant: where the manifest comes from, and that an audit that
\* found no error found no leakage.
HeldOutInv ==
  /\ manifest \in Manifests \union {Absent}
  /\ AuditValid(audit) => audit.manifest \in Manifests /\ Unleaked(audit.manifest)
  /\ HeldOut

\* It holds of a dataset directory that nothing has been run on ...
LEMMA HeldOutInit == StudyInit => HeldOutInv
  BY DEF StudyInit, Init, HeldOutInv, AuditValid, HeldOut, Manifests

\* What an experiment writes, of a manifest that it loaded.
LEMMA ExperimentHeldOut ==
  ASSUME HeldOutInv, NEW development, NEW test, Experiment(development, test)
  PROVE  HeldOut'
<1> DEFINE m == manifest
           used == {c \in m : Role(c) # "test"}
<1>1. /\ study'.manifest = m /\ study'.roles = [c \in m |-> Role(c)]
      /\ m \in Manifests /\ DatasetValid /\ audit' = audit
  BY DEF Experiment, HeldOutInv, Loads
<1>2. \A c \in m : Role(c) = "test" <=> c.split = "test"
  BY DEF Role
<1>3. used = {c \in m : study'.roles[c] # "test"}
  BY <1>1
<1>4. m \ used = {c \in m : c.split = "test"}
  BY <1>2
<1>5. used # {} /\ m \ used # {}
  <2>1. InRole(m, "train") # {} /\ InRole(m, "test") # {}
    BY <1>1 DEF DatasetValid
  <2> QED
    BY <2>1 DEF InRole
<1>6. \A c, d \in m : study'.roles[c] # study'.roles[d] => c.dims.speaker_id # d.dims.speaker_id
  BY <1>1 DEF DatasetValid
<1>7. ASSUME AuditValid(audit), audit.manifest = m
      PROVE  \A c \in used, d \in m \ used : c.words # d.words /\ c.sha # d.sha
  <2>1. Unleaked(m)
    BY <1>7 DEF HeldOutInv
  <2>2. \A c \in used, d \in m \ used : c.split # "test" /\ d.split = "test" /\ c \in m /\ d \in m
    BY <1>2
  <2> QED
    BY <2>1, <2>2 DEF Unleaked
<1> HIDE DEF used
<1>8. AuditValid(audit') /\ audit'.manifest = m =>
        \A c \in used, d \in m \ used : c.words # d.words /\ c.sha # d.sha
  BY <1>1, <1>7
<1> QED
  BY <1>1, <1>3, <1>4, <1>5, <1>6, <1>8 DEF HeldOut

\* ... and every command leaves it so.
LEMMA HeldOutStep == HeldOutInv /\ [StudyNext]_studyVars => HeldOutInv'
<1> SUFFICES ASSUME HeldOutInv, [StudyNext]_studyVars
             PROVE  HeldOutInv'
  OBVIOUS
<1>1. CASE UNCHANGED studyVars
  BY <1>1 DEF HeldOutInv, studyVars, benchmarkVars, AuditValid, HeldOut, Unleaked
<1>2. ASSUME study = Absent, study' = study
      PROVE  HeldOut'
  BY <1>2 DEF HeldOut
<1>3. ASSUME NEW g \in Runs(manifest), Generate(g[1], g[2]), study = Absent, study' = study
      PROVE  HeldOutInv'
  <2>1. audit' = audit /\ (manifest' = manifest \/ manifest' = Generated[g[1]])
    BY <1>3 DEF Generate
  <2>2. Generated[g[1]] \in Manifests
    <3>1. g[1] \in Editions
      BY RunsAssumption DEF HeldOutInv
    <3> QED
      BY <3>1 DEF Manifests, Range, Generated
  <2> QED
    BY <1>2, <1>3, <2>1, <2>2 DEF HeldOutInv, AuditValid
<1>4. ASSUME Audit, study = Absent, study' = study
      PROVE  HeldOutInv'
  <2>0. manifest' = manifest /\ manifest \in Manifests
    BY <1>4 DEF Audit, Loads, HeldOutInv
  <2>1. CASE audit' = audit
    BY <1>2, <1>4, <2>0, <2>1 DEF HeldOutInv, AuditValid
  <2>2. CASE audit' # audit
    <3>1. audit'.manifest = manifest /\ audit'.issues = AuditIssues
      BY <1>4, <2>2 DEF Audit
    <3>2. AuditValid(audit') => Unleaked(manifest)
      BY <2>0, <3>1, LeakageFound DEF AuditValid
    <3> QED
      BY <1>2, <1>4, <2>0, <3>1, <3>2 DEF HeldOutInv
  <2> QED
    BY <2>1, <2>2
<1>5. ASSUME NEW development \in Slots, NEW test \in Slots, Experiment(development, test)
      PROVE  HeldOutInv'
  <2>1. manifest' = manifest /\ audit' = audit
    BY <1>5 DEF Experiment
  <2> QED
    BY <1>5, <2>1, ExperimentHeldOut DEF HeldOutInv, AuditValid
<1>6. ASSUME manifest' = manifest, audit' = audit, study = Absent, study' = study
      PROVE  HeldOutInv'
  BY <1>2, <1>6 DEF HeldOutInv, AuditValid
<1>7. CASE StudyNext
  <2>1. CASE BenchmarkNext /\ study = Absent /\ study' = study
    BY <1>3, <1>4, <1>6, <2>1
       DEF BenchmarkNext, ReplaceAudio, RefusedManifest, Evaluate
  <2>2. ASSUME NEW development \in Slots, NEW test \in Slots, study = Absent,
               RefuseDataset(development, test) \/ ExperimentCrashes(development, test)
        PROVE  HeldOutInv'
    BY <1>6, <2>2 DEF RefuseDataset, ExperimentCrashes
  <2> QED
    BY <1>5, <1>7, <2>1, <2>2 DEF StudyNext
<1> QED
  BY <1>1, <1>7

\* What a study is tested on is kept from what it was trained and selected on: its
\* test cases are the manifest's test split, no voice is in two roles, and after an
\* audit of that manifest without errors no transcript and no audio is on both sides
\* (research/dataset.py, role_for_case, ResearchDataset; evaluation/speech_integrity.py).
THEOREM TestCasesAreHeldOut == StudySpec => []HeldOut
<1>1. HeldOutInv => HeldOut
  BY DEF HeldOutInv
<1> QED
  BY <1>1, HeldOutInit, HeldOutStep, PTL DEF StudySpec

----------------------------------------------------------------------------
(***************************************************************************)
(* Scores are numbers, so that there is a best one.                        *)
(***************************************************************************)
\* The macro F1 of some cases: what it divides by is never zero.
LEMMA ScoreTyped ==
  ASSUME NEW p, IsFiniteSet(DOMAIN p), DOMAIN p # {}
  PROVE  MacroF1(p) \in Int
<1> DEFINE judged == {<<c, MostLikely(p[c])>> : c \in DOMAIN p}
           labels == {Label(j[1]) : j \in judged}
           likely == {j[2] : j \in judged}
           seen == labels \union likely
           labelled(l) == {j \in judged : Label(j[1]) = l}
           predicted(l) == {j \in judged : j[2] = l}
           f1(l) == (Scale * 2 * Cardinality(labelled(l) \intersect predicted(l)))
                      \div (Cardinality(labelled(l)) + Cardinality(predicted(l)))
           f == [l \in seen |-> f1(l)]
           Fits(g) == g = [s \in SUBSET seen |->
                             IF s = {} THEN 0 ELSE f1(Pick(s)) + g[s \ {Pick(s)}]]
           iter == CHOOSE g : Fits(g)
<1>1. MacroF1(p) = iter[seen] \div Cardinality(seen)
  BY DEF MacroF1, MapThenSumSet, MapThenFoldSet, Pick
<1>0. IsFiniteSet(judged) /\ judged # {}
  <2> DEFINE a == [c \in DOMAIN p |-> <<c, MostLikely(p[c])>>]
  <2>1. judged = {a[c] : c \in DOMAIN p} /\ a = [c \in DOMAIN p |-> a[c]]
    OBVIOUS
  <2>2. judged # {}
    OBVIOUS
  <2> HIDE DEF a, judged
  <2> QED
    BY <2>1, <2>2, ImageFinite
<1> HIDE DEF judged
<1>2. IsFiniteSet(seen) /\ seen # {}
  <2> DEFINE a == [j \in judged |-> Label(j[1])]
             b == [j \in judged |-> j[2]]
  <2>1. labels = {a[j] : j \in judged} /\ likely = {b[j] : j \in judged}
    OBVIOUS
  <2>2. a = [j \in judged |-> a[j]] /\ b = [j \in judged |-> b[j]]
    OBVIOUS
  <2>3. likely # {}
    BY <1>0
  <2> HIDE DEF a, b, labels, likely
  <2>4. IsFiniteSet(labels) /\ IsFiniteSet(likely)
    BY <1>0, <2>1, <2>2, ImageFinite
  <2> QED
    BY <2>3, <2>4, FS_Union
<1>3. Cardinality(seen) \in Nat \ {0}
  BY <1>2, FS_CardinalityType, FS_EmptySet
<1>4. ASSUME NEW l \in seen
      PROVE  f1(l) \in Int
  <2>1. IsFiniteSet(labelled(l)) /\ IsFiniteSet(predicted(l))
        /\ IsFiniteSet(labelled(l) \intersect predicted(l))
    BY <1>0, FS_Subset
  <2>2. labelled(l) # {} \/ predicted(l) # {}
    BY <1>4
  <2> HIDE DEF labelled, predicted
  <2>3. /\ Cardinality(labelled(l)) \in Nat /\ Cardinality(predicted(l)) \in Nat
        /\ Cardinality(labelled(l) \intersect predicted(l)) \in Nat
        /\ Cardinality(labelled(l)) + Cardinality(predicted(l)) > 0
    BY <2>1, <2>2, FS_CardinalityType, FS_EmptySet
  <2>4. \A x \in Nat, y \in Nat : y > 0 => (Scale * 2 * x) \div y \in Int
    BY ScaleAssumption
  <2> QED
    BY <2>3, <2>4
<1> HIDE DEF seen, f1
<1>5. f \in [seen -> Int]
  BY <1>4
<1>6. \A g : Total(f, seen, g) <=> Fits(g)
  <2>1. \A s \in SUBSET seen : s # {} => f[Pick(s)] = f1(Pick(s))
    BY DEF Pick
  <2> HIDE DEF f
  <2> QED
    BY <2>1 DEF Total
<1> HIDE DEF f
<1>7. \E g : Total(f, seen, g)
  BY <1>2, <1>5, TotalTyped
<1>8. Total(f, seen, iter)
  <2> HIDE DEF Fits
  <2> QED
    BY <1>6, <1>7
<1>9. iter[seen] \in Int
  <2> HIDE DEF iter
  <2> QED
    BY <1>2, <1>5, <1>8, TotalTyped
<1> HIDE DEF iter
<1> QED
  BY <1>1, <1>3, <1>9

\* The selected strength is one of those compared.
LEMMA StrengthSelected ==
  ASSUME NEW table, \A i \in DOMAIN Strengths : MacroF1(table[i]) \in Int
  PROVE  SelectStrength(table) \in DOMAIN Strengths
<1> DEFINE T == DOMAIN Strengths
           better(a, b) == \/ MacroF1(table[a]) > MacroF1(table[b])
                           \/ MacroF1(table[a]) = MacroF1(table[b]) /\ a < b
           R == {r \in T \X T : better(r[1], r[2])}
<1>1. T = 1..Len(Strengths) /\ Len(Strengths) \in Nat \ {0}
  BY StrengthAssumption
<1>2. IsFiniteSet(T) /\ T # {} /\ T \subseteq Int
  <2>1. 1 \in T /\ T \subseteq Int
    BY <1>1
  <2>2. IsFiniteSet(1..Len(Strengths))
    BY <1>1, FS_Interval
  <2> QED
    BY <1>1, <2>1, <2>2
<1>3. \A a, b \in T : <<a, b>> \in R <=> better(a, b)
  OBVIOUS
<1>4. SelectStrength(table) = CHOOSE a \in T : \A b \in T \ {a} : better(a, b)
  BY DEF SelectStrength, FirstBest
<1> HIDE DEF R, T
<1>5. \A a, b \in T : a # b => better(a, b) \/ better(b, a)
  BY <1>2 DEF T
<1>6. \A a, b, c \in T : better(a, b) /\ better(b, c) => better(a, c)
  BY <1>2 DEF T
<1> HIDE DEF better
<1>7. \E a \in T : \A b \in T \ {a} : <<a, b>> \in R
  BY <1>2, <1>3, <1>5, <1>6, FirstExists
<1>8. \E a \in T : \A b \in T \ {a} : better(a, b)
  BY <1>3, <1>7
<1> QED
  BY <1>4, <1>8 DEF T

\* The selected weight's fusion scores no less than any other's.
LEMMA WeightSelected ==
  ASSUME NEW text, NEW acoustic, \A w \in 0..4 : MacroF1(LateFuse(text, acoustic, w)) \in Int
  PROVE  LET best == SelectWeight(text, acoustic) IN
         /\ best \in 0..4
         /\ \A w \in 0..4 : MacroF1(LateFuse(text, acoustic, best))
                              >= MacroF1(LateFuse(text, acoustic, w))
<1> DEFINE T == 0..4
           score(w) == MacroF1(LateFuse(text, acoustic, w))
           better(a, b) ==
             \/ score(a) > score(b)
             \/ score(a) = score(b) /\ FromHalf(a) < FromHalf(b)
             \/ score(a) = score(b) /\ FromHalf(a) = FromHalf(b) /\ a < b
           R == {r \in T \X T : better(r[1], r[2])}
<1>1. IsFiniteSet(T) /\ T # {} /\ T \subseteq Int
  <2>1. 0 \in T /\ T \subseteq Int /\ 0 \in Int /\ 4 \in Int
    OBVIOUS
  <2>2. IsFiniteSet(T)
    BY <2>1, FS_Interval
  <2> QED
    BY <2>1, <2>2
<1>2. \A a, b \in T : <<a, b>> \in R <=> better(a, b)
  OBVIOUS
<1>3. SelectWeight(text, acoustic) = CHOOSE a \in T : \A b \in T \ {a} : better(a, b)
  BY DEF SelectWeight, FirstBest
<1>4. \A a \in T : FromHalf(a) \in Int
  BY DEF FromHalf
<1>5. \A a \in T : score(a) \in Int
  OBVIOUS
<1> HIDE DEF R, T, score
<1>6. \A a, b \in T : a # b => better(a, b) \/ better(b, a)
  BY <1>1, <1>4, <1>5
<1>7. \A a, b, c \in T : better(a, b) /\ better(b, c) => better(a, c)
  BY <1>1, <1>4, <1>5
<1>8. \A a, b \in T : better(a, b) \/ a = b => score(a) >= score(b)
  BY <1>1, <1>4, <1>5
<1> HIDE DEF better
<1>9. \E a \in T : \A b \in T \ {a} : <<a, b>> \in R
  BY <1>1, <1>2, <1>6, <1>7, FirstExists
<1>10. \E a \in T : \A b \in T \ {a} : better(a, b)
  BY <1>2, <1>9
<1> DEFINE best == SelectWeight(text, acoustic)
<1>11. best \in T /\ \A b \in T \ {best} : better(best, b)
  BY <1>3, <1>10
<1> HIDE DEF best
<1>12. \A b \in T : score(best) >= score(b)
  BY <1>8, <1>11
<1> QED
  BY <1>11, <1>12 DEF best, T, score

\* A threshold reaches the accuracy on the cases it accepts, of which there are some.
Meets(p, u) ==
  /\ Accepted(p, u) # {}
  /\ 100 * Cardinality(Right(p, Accepted(p, u))) >= MinimumAccuracy * Cardinality(Accepted(p, u))

\* The selected threshold accepts as much as any that reaches the accuracy, and is
\* zero unless that is what it takes.
LEMMA ThresholdSelected ==
  ASSUME NEW p, IsFiniteSet(DOMAIN p), \A c \in DOMAIN p : Confidence(p[c]) \in Int
  PROVE  LET t == SelectThreshold(p) IN
         /\ t > 0 => Meets(p, t) /\ ~Meets(p, 0)
         /\ \A u \in Thresholds : Meets(p, u) =>
              Meets(p, t) /\ Accepted(p, u) \subseteq Accepted(p, t)
<1> DEFINE T == Eligible(p)
           more(u) == Metrics(p, u).accepted
           better(a, b) == more(a) > more(b) \/ (more(a) = more(b) /\ a < b)
           R == {r \in T \X T : better(r[1], r[2])}
           t == SelectThreshold(p)
<1>1. Thresholds \subseteq Nat /\ 0 \in Thresholds
  BY DEF Thresholds
<1>2. ASSUME NEW u \in Thresholds
      PROVE  /\ IsFiniteSet(Accepted(p, u))
             /\ more(u) = Cardinality(Accepted(p, u)) /\ more(u) \in Nat
             /\ u \in T <=> Meets(p, u)
  <2>1. IsFiniteSet(Accepted(p, u))
    <3>1. Accepted(p, u) \in SUBSET DOMAIN p
      BY DEF Accepted
    <3> QED
      BY <3>1, FS_Subset
  <2>2. /\ Cardinality(Accepted(p, u)) \in Nat
        /\ Cardinality(Accepted(p, u)) = 0 <=> Accepted(p, u) = {}
    BY <2>1, FS_CardinalityType, FS_EmptySet
  <2>3. more(u) = Cardinality(Accepted(p, u))
        /\ Metrics(p, u).right = Cardinality(Right(p, Accepted(p, u)))
    BY DEF Metrics
  <2>4. u \in T <=> more(u) > 0 /\ 100 * Metrics(p, u).right >= MinimumAccuracy * more(u)
    BY DEF Eligible
  <2> HIDE DEF T, more
  <2>5. more(u) > 0 <=> Accepted(p, u) # {}
    BY <2>2, <2>3
  <2> QED
    BY <2>1, <2>2, <2>3, <2>4, <2>5 DEF Meets
<1>3. \A u, v \in Thresholds : u <= v => Accepted(p, v) \subseteq Accepted(p, u)
  BY <1>1 DEF Accepted
<1>4. T \subseteq Thresholds
  BY DEF Eligible
<1>5. CASE T = {}
  <2>1. t = 0
    BY <1>5 DEF SelectThreshold
  <2> HIDE DEF t
  <2> QED
    BY <1>2, <1>5, <2>1 DEF t
<1>6. CASE T # {}
  <2>1. IsFiniteSet(T)
    <3>1. T \in SUBSET (0..90)
      <4>1. Thresholds \subseteq 0..90
        BY DEF Thresholds
      <4> HIDE DEF T
      <4> QED
        BY <1>4, <4>1
    <3>2. 0 \in Int /\ 90 \in Int
      OBVIOUS
    <3>3. IsFiniteSet(0..90)
      BY <3>2, FS_Interval
    <3> HIDE DEF T
    <3> QED
      BY <3>1, <3>3, FS_Subset
  <2>2. t = CHOOSE a \in T : \A b \in T \ {a} : better(a, b)
    BY <1>6 DEF SelectThreshold, FirstBest
  <2>3. \A a, b \in T : <<a, b>> \in R <=> better(a, b)
    OBVIOUS
  <2> HIDE DEF R, T, t, more
  <2>4. \A a \in T : a \in Nat /\ more(a) \in Nat
    BY <1>1, <1>2, <1>4
  <2>5. \A a, b \in T : a # b => better(a, b) \/ better(b, a)
    BY <2>4
  <2>6. \A a, b, c \in T : better(a, b) /\ better(b, c) => better(a, c)
    BY <2>4
  <2>7. t \in T /\ \A b \in T \ {t} : better(t, b)
    <3> HIDE DEF better
    <3>1. \E a \in T : \A b \in T \ {a} : <<a, b>> \in R
      BY <1>6, <2>1, <2>3, <2>5, <2>6, FirstExists
    <3>2. \E a \in T : \A b \in T \ {a} : better(a, b)
      BY <2>3, <3>1
    <3> QED
      BY <2>2, <3>2
  <2>8. t \in Thresholds /\ Meets(p, t)
    BY <1>2, <1>4, <2>7
  <2>9. ASSUME NEW u \in T
        PROVE  t <= u /\ Accepted(p, u) \subseteq Accepted(p, t)
    <3>0. /\ u \in Thresholds /\ u \in Nat /\ t \in Nat
          /\ more(u) = Cardinality(Accepted(p, u)) /\ more(t) = Cardinality(Accepted(p, t))
          /\ IsFiniteSet(Accepted(p, u)) /\ more(u) \in Nat /\ more(t) \in Nat
      BY <1>1, <1>2, <1>4, <2>8
    <3>1. CASE t <= u
      BY <1>3, <2>8, <3>0, <3>1
    <3>2. CASE u < t
      <4>1. better(t, u)
        BY <2>7, <3>0, <3>2
      <4>2. more(t) <= more(u)
        <5>1. Accepted(p, t) \in SUBSET Accepted(p, u)
          BY <1>3, <2>8, <3>0, <3>2
        <5> QED
          BY <3>0, <5>1, FS_Subset
      <4> QED
        BY <3>0, <3>2, <4>1, <4>2
    <3> QED
      BY <3>0, <3>1, <3>2
  <2>10. t > 0 => ~Meets(p, 0)
    <3>1. 0 \in T => t <= 0
      BY <2>9
    <3>2. t \in Nat
      BY <1>1, <2>8
    <3> QED
      BY <1>1, <1>2, <3>1, <3>2
  <2> QED
    BY <1>2, <2>8, <2>9, <2>10 DEF t
<1> QED
  BY <1>5, <1>6

----------------------------------------------------------------------------
(***************************************************************************)
(* Tables of predictions.                                                  *)
(***************************************************************************)
Tables(cases, classes) == [cases -> [classes -> 0..100]]

\* A row of percents has a greatest.
LEMMA ConfidenceTyped ==
  ASSUME NEW classes, classes # {}, NEW row \in [classes -> 0..100]
  PROVE  Confidence(row) \in Int
<1> DEFINE S == Range(row)
           T == {100 - x : x \in S}
<1>1. S # {} /\ S \subseteq 0..100
  BY DEF Range
<1> HIDE DEF S
<1>2. T \in SUBSET Nat /\ T # {}
  <2>1. \A x \in S : 100 - x \in Nat
    BY <1>1
  <2>2. PICK x \in S : TRUE
    BY <1>1
  <2>3. 100 - x \in T
    OBVIOUS
  <2> QED
    BY <2>1, <2>3
<1>3. PICK m \in T : \A k \in T : m <= k
  <2> HIDE DEF T
  <2> QED
    BY <1>2, LeastOf
<1>4. PICK x \in S : m = 100 - x
  BY <1>3
<1>5. \A y \in S : x >= y
  <2>1. \A y \in S : 100 - x <= 100 - y
    BY <1>3, <1>4
  <2> QED
    BY <1>1, <2>1
<1>6. Max(S) \in S
  BY <1>5 DEF Max
<1> QED
  BY <1>1, <1>6 DEF Confidence, S

\* Fusion is a weighted average, and the extreme weights are no fusion at all.
LEMMA FusionTyped ==
  ASSUME NEW cases, NEW classes, NEW text \in Tables(cases, classes),
         NEW acoustic \in Tables(cases, classes)
  PROVE  /\ \A w \in 0..4 : LateFuse(text, acoustic, w) \in Tables(cases, classes)
         /\ LateFuse(text, acoustic, 4) = text
         /\ LateFuse(text, acoustic, 0) = acoustic
<1>1. /\ DOMAIN text = cases /\ \A c \in cases : DOMAIN text[c] = classes
      /\ \A c \in cases : text[c] \in [classes -> 0..100] /\ acoustic[c] \in [classes -> 0..100]
      /\ \A c \in cases, l \in classes : text[c][l] \in 0..100 /\ acoustic[c][l] \in 0..100
  BY DEF Tables
<1>2. \A w \in 0..4, x, y \in 0..100 : (w * x + (4 - w) * y) \div 4 \in 0..100
  <2> SUFFICES ASSUME NEW w \in 0..4, NEW x \in 0..100, NEW y \in 0..100
               PROVE  (w * x + (4 - w) * y) \div 4 \in 0..100
    OBVIOUS
  <2>1. w * x + (4 - w) * y \in 0..400
    <3>1. CASE w = 0
      BY <3>1
    <3>2. CASE w = 1
      BY <3>2
    <3>3. CASE w = 2
      BY <3>3
    <3>4. CASE w = 3
      BY <3>4
    <3>5. CASE w = 4
      BY <3>5
    <3> QED
      BY <3>1, <3>2, <3>3, <3>4, <3>5
  <2>2. \A z \in 0..400 : z \div 4 \in 0..100
    OBVIOUS
  <2> QED
    BY <2>1, <2>2
<1>3. \A x, y \in 0..100 : (4 * x + (4 - 4) * y) \div 4 = x /\ (0 * x + (4 - 0) * y) \div 4 = y
  OBVIOUS
<1>4. \A w : LateFuse(text, acoustic, w) =
        [c \in cases |-> [l \in classes |-> (w * text[c][l] + (4 - w) * acoustic[c][l]) \div 4]]
  BY <1>1 DEF LateFuse
<1>5. ASSUME NEW w \in 0..4
      PROVE  LateFuse(text, acoustic, w) \in Tables(cases, classes)
  <2> DEFINE v(c, l) == (w * text[c][l] + (4 - w) * acoustic[c][l]) \div 4
  <2>1. \A c \in cases, l \in classes : v(c, l) \in 0..100
    BY <1>1, <1>2
  <2>2. LateFuse(text, acoustic, w) = [c \in cases |-> [l \in classes |-> v(c, l)]]
    BY <1>4
  <2> HIDE DEF v
  <2> QED
    BY <2>1, <2>2 DEF Tables
<1>6. LateFuse(text, acoustic, 4) = text
  <2>1. \A c \in cases : [l \in classes |-> (4 * text[c][l] + (4 - 4) * acoustic[c][l]) \div 4] = text[c]
    BY <1>1, <1>3
  <2> QED
    BY <1>4, <2>1 DEF Tables
<1>7. LateFuse(text, acoustic, 0) = acoustic
  <2>1. \A c \in cases : [l \in classes |-> (0 * text[c][l] + (4 - 0) * acoustic[c][l]) \div 4] = acoustic[c]
    BY <1>1, <1>3
  <2> QED
    BY <1>4, <2>1 DEF Tables
<1> QED
  BY <1>5, <1>6, <1>7

\* Scaling a table leaves a table.
LEMMA ScaledTyped ==
  ASSUME NEW cases, NEW classes, NEW p \in Tables(cases, classes), NEW temperature,
         \A q \in 0..100 : Scaled(temperature, q) \in 0..100
  PROVE  TemperatureScaled(p, temperature) \in Tables(cases, classes)
<1>1. /\ DOMAIN p = cases /\ \A c \in cases : DOMAIN p[c] = classes
      /\ \A c \in cases, l \in classes : p[c][l] \in 0..100
  BY DEF Tables
<1> QED
  BY <1>1 DEF Tables, TemperatureScaled

----------------------------------------------------------------------------
(***************************************************************************)
(* What is selected is the best of what was compared.                      *)
(***************************************************************************)

\* What the libraries give: a likelihood is a probability, and scaling it leaves one.
Percents(fitted) ==
  /\ \A kind \in Kinds, i \in DOMAIN Strengths, c \in UNION Manifests,
        l \in Labels(UNION Manifests) :
       Likelihood(fitted[kind], Strengths[i], c, l) \in 0..100
  /\ \A name \in Predictors, p \in 0..100 : Scaled(fitted.temperature[name], p) \in 0..100

Honest(s) ==
  /\ MacroF1(s.sets["late_fusion"]) >= MacroF1(s.sets["text"])
  /\ MacroF1(s.sets["late_fusion"]) >= MacroF1(s.sets["acoustic"])
  /\ \A name \in Predictors :
       LET p == s.calibrated[name]
           t == s.thresholds[name]
       IN /\ t > 0 => Meets(p, t) /\ ~Meets(p, 0)
          /\ \A u \in Thresholds : Meets(p, u) =>
               Meets(p, t) /\ Accepted(p, u) \subseteq Accepted(p, t)

\* The same of a selection by itself.
LEMMA HonestIsSelectionHonest ==
  SelectionHonest <=> (study # Absent => Honest(study.selection))
BY DEF SelectionHonest, Honest, Meets

\* Whatever the classifiers turn out to be, an experiment selects honestly ...
LEMMA SelectionBest ==
  ASSUME manifest \in Manifests, DatasetValid, NEW fitted, Percents(fitted)
  PROVE  Honest(Selection(fitted))
<1> DEFINE labels == Labels(InRole(manifest, "train"))
           validation == InRole(manifest, "validation")
           P == Tables(validation, labels)
           table(kind) == [i \in DOMAIN Strengths |->
             Predictions(fitted[kind], Strengths[i], validation, labels)]
           strengths == [kind \in Kinds |-> SelectStrength(table(kind))]
           chosen == [kind \in Kinds |-> table(kind)[strengths[kind]]]
           weight == SelectWeight(chosen["text"], chosen["acoustic"])
           sets == WithFusion(chosen, weight)
           calibrated == [name \in Predictors |->
             TemperatureScaled(sets[name], fitted.temperature[name])]
           thresholds == [name \in Predictors |-> SelectThreshold(calibrated[name])]
           s == Selection(fitted)
<1>1. s.sets = sets /\ s.calibrated = calibrated /\ s.thresholds = thresholds
  BY DEF Selection
<1>2. IsFiniteSet(validation) /\ validation # {} /\ labels # {}
  <2>1. validation \in SUBSET manifest
    BY DEF InRole
  <2>2. IsFiniteSet(manifest)
    BY ManifestFacts
  <2>3. InRole(manifest, "train") # {} /\ validation # {}
    BY DEF DatasetValid
  <2>4. labels # {}
    BY <2>3 DEF Labels
  <2> QED
    BY <2>1, <2>2, <2>3, <2>4, FS_Subset
<1>3. ASSUME NEW kind \in Kinds, NEW i \in DOMAIN Strengths
      PROVE  table(kind)[i] \in P
  <2>1. validation \subseteq UNION Manifests /\ labels \subseteq Labels(UNION Manifests)
    BY DEF InRole, Labels
  <2>2. table(kind)[i] = Predictions(fitted[kind], Strengths[i], validation, labels)
    OBVIOUS
  <2> HIDE DEF validation, labels, table
  <2>3. \A c \in validation, l \in labels :
          Likelihood(fitted[kind], Strengths[i], c, l) \in 0..100
    BY <2>1 DEF Percents
  <2> QED
    BY <2>2, <2>3 DEF Predictions, Tables
<1>4. ASSUME NEW p \in P
      PROVE  MacroF1(p) \in Int
  <2>1. DOMAIN p = validation
    BY DEF Tables
  <2> QED
    BY <1>2, <2>1, ScoreTyped
<1>5. ASSUME NEW kind \in Kinds
      PROVE  chosen[kind] \in P
  <2>1. \A i \in DOMAIN Strengths : MacroF1(table(kind)[i]) \in Int
    BY <1>3, <1>4
  <2>2. chosen[kind] = table(kind)[SelectStrength(table(kind))]
    OBVIOUS
  <2> HIDE DEF table, P, chosen
  <2>3. SelectStrength(table(kind)) \in DOMAIN Strengths
    BY <2>1, StrengthSelected
  <2> QED
    BY <1>3, <2>2, <2>3
<1> HIDE DEF chosen
<1>6. chosen["text"] \in P /\ chosen["acoustic"] \in P
  BY <1>5 DEF Kinds
<1> DEFINE fused(w) == LateFuse(chosen["text"], chosen["acoustic"], w)
<1>7. (\A w \in 0..4 : fused(w) \in P) /\ fused(4) = chosen["text"] /\ fused(0) = chosen["acoustic"]
  <2> HIDE DEF validation, labels
  <2> QED
    BY <1>6, FusionTyped
<1>8. \A w \in 0..4 : MacroF1(fused(w)) \in Int
  <2> HIDE DEF fused, P
  <2> QED
    BY <1>4, <1>7
<1>9. weight \in 0..4 /\ \A w \in 0..4 : MacroF1(fused(weight)) >= MacroF1(fused(w))
  BY <1>8, WeightSelected
<1> HIDE DEF weight, P
<1>10. /\ \A name \in Predictors : sets[name] \in P
       /\ sets["late_fusion"] = fused(weight)
       /\ sets["text"] = chosen["text"] /\ sets["acoustic"] = chosen["acoustic"]
  <2>1. /\ "late_fusion" \in Predictors /\ "text" \in Predictors /\ "acoustic" \in Predictors
        /\ \A name \in Predictors : name = "late_fusion" \/ name \in Kinds
    BY DEF Predictors, Kinds
  <2>2. \A name \in Predictors :
          sets[name] = IF name = "late_fusion" THEN fused(weight) ELSE chosen[name]
    BY DEF WithFusion
  <2>3. fused(weight) \in P
    <3> HIDE DEF fused
    <3> QED
      BY <1>7, <1>9
  <2> HIDE DEF sets, fused
  <2> QED
    BY <1>5, <2>1, <2>2, <2>3
<1> HIDE DEF sets
<1>11. /\ MacroF1(sets["late_fusion"]) >= MacroF1(sets["text"])
       /\ MacroF1(sets["late_fusion"]) >= MacroF1(sets["acoustic"])
  <2>1. 0 \in 0..4 /\ 4 \in 0..4
    OBVIOUS
  <2> HIDE DEF fused
  <2> QED
    BY <1>7, <1>9, <1>10, <2>1
<1>12. ASSUME NEW name \in Predictors
       PROVE  LET p == s.calibrated[name]
                  t == s.thresholds[name]
              IN /\ t > 0 => Meets(p, t) /\ ~Meets(p, 0)
                 /\ \A u \in Thresholds : Meets(p, u) =>
                      Meets(p, t) /\ Accepted(p, u) \subseteq Accepted(p, t)
  <2> DEFINE p == calibrated[name]
  <2>1. \A q \in 0..100 : Scaled(fitted.temperature[name], q) \in 0..100
    BY DEF Percents
  <2>2. p = TemperatureScaled(sets[name], fitted.temperature[name])
    OBVIOUS
  <2>3. p \in P
    <3> HIDE DEF p, validation, labels
    <3> QED
      BY <1>10, <2>1, <2>2, ScaledTyped DEF P
  <2>4. s.calibrated[name] = p /\ s.thresholds[name] = SelectThreshold(p)
    BY <1>1
  <2> HIDE DEF p, validation, labels
  <2>5. DOMAIN p = validation /\ \A c \in validation : p[c] \in [labels -> 0..100]
    BY <2>3 DEF P, Tables
  <2>6. \A c \in DOMAIN p : Confidence(p[c]) \in Int
    BY <1>2, <2>5, ConfidenceTyped
  <2> HIDE DEF s
  <2> QED
    BY <1>2, <2>4, <2>5, <2>6, ThresholdSelected
<1> HIDE DEF s
<1>13. Honest(s)
  BY <1>1, <1>11, <1>12 DEF Honest
<1> QED
  BY <1>13 DEF s

\* ... and nothing changes its report.
LEMMA SelectionStep ==
  ASSUME \A r : \A fitted \in Fitted(r) : Percents(fitted)
  PROVE  HeldOutInv /\ SelectionHonest /\ [StudyNext]_studyVars => SelectionHonest'
<1> SUFFICES ASSUME HeldOutInv, SelectionHonest, [StudyNext]_studyVars
             PROVE  SelectionHonest'
  OBVIOUS
<1>0. SelectionHonest' <=> (study' # Absent => Honest(study'.selection))
  BY DEF SelectionHonest, Honest, Meets
<1>1. CASE UNCHANGED study
  BY <1>0, <1>1, HonestIsSelectionHonest
<1>2. ASSUME NEW development \in Slots, NEW test \in Slots, Experiment(development, test)
      PROVE  SelectionHonest'
  <2>1. manifest \in Manifests /\ DatasetValid
    BY <1>2 DEF Experiment, Loads, HeldOutInv
  <2>2. PICK fitted \in Fitted(report[development]) : study'.selection = Selection(fitted)
    BY <1>2 DEF Experiment
  <2>3. Honest(study'.selection)
    BY <2>1, <2>2, SelectionBest
  <2> QED
    BY <1>0, <2>3
<1> QED
  BY <1>1, <1>2 DEF StudyNext, studyVars, RefuseDataset, ExperimentCrashes

\* Late fusion scores no less on the validation cases than text and acoustics alone,
\* and a threshold is positive only if it reaches the accuracy and accepting
\* everything does not; no other that does accepts more (research/experiment.py,
\* _select_fusion_weight; research/evaluation.py, select_abstention_threshold). The
\* libraries are assumed to give probabilities, whole percents here.
THEOREM SelectionIsHonest ==
  ASSUME \A r : \A fitted \in Fitted(r) : Percents(fitted)
  PROVE  StudySpec => []SelectionHonest
<1>1. StudyInit => SelectionHonest
  BY DEF StudyInit, SelectionHonest
<1>2. HeldOutInv /\ SelectionHonest /\ [StudyNext]_studyVars => SelectionHonest'
  BY SelectionStep
<1> QED
  BY <1>1, <1>2, HeldOutInit, HeldOutStep, PTL DEF StudySpec

----------------------------------------------------------------------------
(***************************************************************************)
(* What an audit vouches for.                                              *)
(***************************************************************************)
\* The inductive invariant: an audit without errors hashed every file it looked at.
AuditedInv ==
  /\ report = [s \in Slots |-> report[s]]
  /\ AuditValid(audit) => \A c \in audit.manifest :
       /\ audit.files[c.id] = c.sha /\ c.sha.kind = "wav"
       /\ c.sha \notin {Absent, Escaped}

\* It holds before any audit ...
LEMMA AuditedInit == StudyInit => AuditedInv
  BY DEF StudyInit, Init, AuditedInv, AuditValid

\* An audit without errors verified every case.
LEMMA AuditVerifies ==
  ASSUME \A i \in AuditIssues : i.severity # "error"
  PROVE  \A c \in manifest : Verified(c)
<1> SUFFICES ASSUME NEW c \in manifest, ~Verified(c)
             PROVE  FALSE
  OBVIOUS
<1>1. FileIssue(c) \in AuditIssues
  BY DEF AuditIssues
<1>2. FileIssue(c).severity = "error"
  BY DEF FileIssue
<1> QED
  BY <1>1, <1>2

\* ... and whatever is run: the audit's report says what it looked at.
LEMMA AuditedStep == AuditedInv /\ [StudyNext]_studyVars => AuditedInv'
<1> SUFFICES ASSUME AuditedInv, [StudyNext]_studyVars
             PROVE  AuditedInv'
  OBVIOUS
<1>1. ASSUME report' = report, audit' = audit
      PROVE  AuditedInv'
  BY <1>1 DEF AuditedInv, AuditValid
<1>2. ASSUME Audit
      PROVE  AuditedInv'
  <2>1. CASE audit' = audit
    BY <1>1, <1>2, <2>1 DEF Audit
  <2>2. CASE audit' # audit
    <3>1. /\ audit'.manifest = manifest /\ audit'.files = files /\ audit'.issues = AuditIssues
          /\ report' = report
      BY <1>2, <2>2 DEF Audit
    <3>2. AuditValid(audit') => \A c \in manifest : Verified(c)
      BY <3>1, AuditVerifies DEF AuditValid
    <3>3. \A c \in manifest : Verified(c) =>
            files[c.id] = c.sha /\ c.sha.kind = "wav" /\ c.sha \notin {Absent, Escaped}
      BY DEF Verified, Intact, Readable
    <3> QED
      BY <3>1, <3>2, <3>3 DEF AuditedInv
  <2> QED
    BY <2>1, <2>2
<1>3. ASSUME NEW model, NEW split, NEW slot \in Slots, Evaluate(model, split, slot)
      PROVE  AuditedInv'
  BY <1>3 DEF Evaluate, AuditedInv, AuditValid
<1> QED
  BY <1>1, <1>2, <1>3
     DEF StudyNext, BenchmarkNext, Generate, ReplaceAudio, RefusedManifest,
         RefuseDataset, ExperimentCrashes, Experiment, studyVars, benchmarkVars

\* A report of audited files is what the recognizer makes of the manifest's audio.
LEMMA EvaluateVouched ==
  ASSUME AuditedInv, StillAudited, NEW model, NEW split, NEW slot \in Slots,
         Evaluate(model, split, slot), NEW s \in Slots, report'[s] # report[s],
         NEW r \in report'[s].cases
  PROVE  LET named == (CHOOSE c \in manifest : c.id = r.id).sha IN
         IF r.status = "failed" THEN Heard(r.model, named) = Raises
         ELSE r.hypothesis = Heard(r.model, named).words
<1>1. report'[s].cases = {Result(model, c) : c \in Selected(manifest, split)}
  BY DEF Evaluate, AuditedInv
<1>2. PICK c \in manifest : r = Result(model, c)
  BY <1>1 DEF Selected
<1> DEFINE heard == Transcribed(model, c)
<1>3. /\ r.id = c.id /\ r.model = model
      /\ r.status = IF heard = Raises THEN "failed" ELSE "success"
      /\ r.hypothesis = IF heard = Raises THEN <<>> ELSE heard.words
  BY <1>2 DEF Result
<1>4. (CHOOSE d \in manifest : d.id = r.id) = c
  BY <1>3 DEF Evaluate, Loads, ManifestValid
<1>5. files[c.id] = c.sha /\ c.sha.kind = "wav" /\ c.sha \notin {Absent, Escaped}
  BY DEF StillAudited, AuditedInv
<1>6. heard = Heard(model, c.sha)
  BY <1>5 DEF Transcribed, Readable
<1> HIDE DEF heard
<1> QED
  BY <1>3, <1>4, <1>6

\* While nothing changed since an audit without errors, a report is of the audio that
\* the manifest names: the runner compares no hash, but the audit compared them all
\* (evaluation/speech_integrity.py, speech_runner.py).
THEOREM AuditVouchesForReports == StudySpec => AuditVouches
<1> DEFINE Vouched ==
      \A s \in Slots : report'[s] # report[s] /\ StillAudited =>
        \A r \in report'[s].cases :
          LET named == (CHOOSE c \in manifest : c.id = r.id).sha IN
          IF r.status = "failed" THEN Heard(r.model, named) = Raises
          ELSE r.hypothesis = Heard(r.model, named).words
<1>1. ASSUME AuditedInv, [StudyNext]_studyVars
      PROVE  Vouched
  <2>1. CASE report' = report
    BY <2>1
  <2>2. ASSUME NEW model, NEW split, NEW slot \in Slots, Evaluate(model, split, slot)
        PROVE  Vouched
    BY <1>1, <2>2, EvaluateVouched
  <2> HIDE DEF Vouched
  <2> QED
    BY <1>1, <2>1, <2>2
       DEF StudyNext, BenchmarkNext, Generate, ReplaceAudio, RefusedManifest, Audit,
           RefuseDataset, ExperimentCrashes, Experiment, studyVars, benchmarkVars
<1>2. AuditedInv /\ [StudyNext]_studyVars => [Vouched]_benchmarkVars
  <2> HIDE DEF Vouched
  <2> QED
    BY <1>1
<1>3. StudySpec => [][Vouched]_benchmarkVars
  <2> HIDE DEF Vouched
  <2> QED
    BY <1>2, AuditedInit, AuditedStep, PTL DEF StudySpec
<1> QED
  BY <1>3 DEF AuditVouches

\* The sentences of the test voice are its own.
TestVoiceApart ==
  \A e \in Editions : \A t, u \in DOMAIN e, v \in 1..3 :
    RenderedText(e[t], 4) # RenderedText(e[u], v)

\* Then nothing leaks in what the generator makes: a file says whose voice it is.
LEMMA GeneratedUnleaked ==
  ASSUME TestVoiceApart, NEW e \in Editions
  PROVE  Unleaked(Generated[e]) /\ \A c \in Generated[e] : c.sha.kind = "wav"
<1>1. \A c \in Generated[e] : \E v \in 1..4, t \in DOMAIN e : c = GeneratedCase(e, v, t)
  BY GeneratedFacts
<1>2. \A v \in 1..4, t \in DOMAIN e :
        LET c == GeneratedCase(e, v, t) IN
        /\ c.words = RenderedText(e[t], v) /\ c.split = Voices[v].split
        /\ c.sha.voice = Voices[v].speaker /\ c.sha.kind = "wav"
  BY DEF GeneratedCase
<1>3. /\ \A v \in 1..4 : Voices[v].split = IF v = 4 THEN "test" ELSE "development"
      /\ \A v, u \in 1..4 : Voices[v].speaker = Voices[u].speaker => v = u
  BY DEF Voices
<1>4. ASSUME NEW v \in 1..4, NEW u \in 1..4, NEW t \in DOMAIN e, NEW w \in DOMAIN e,
             \/ GeneratedCase(e, v, t).words = GeneratedCase(e, u, w).words
             \/ GeneratedCase(e, v, t).sha = GeneratedCase(e, u, w).sha
      PROVE  GeneratedCase(e, v, t).split = GeneratedCase(e, u, w).split
  <2>1. RenderedText(e[t], v) = RenderedText(e[w], u) \/ v = u
    BY <1>2, <1>3, <1>4
  <2>2. \A a \in 1..4 : a = 4 \/ a \in 1..3
    OBVIOUS
  <2>3. v = 4 <=> u = 4
    BY <2>1, <2>2 DEF TestVoiceApart
  <2> QED
    BY <1>2, <1>3, <2>3
<1>5. Unleaked(Generated[e])
  BY <1>1, <1>4 DEF Unleaked
<1> QED
  BY <1>1, <1>2, <1>5

\* So the audit finds nothing there but, perhaps, repetitions within a split.
LEMMA AuditPasses ==
  ASSUME TestVoiceApart, HeldOutInv, Audit, audit' # audit
  PROVE  /\ audit'.verified <= Cardinality(manifest)
         /\ (/\ \E e \in Editions : manifest = Generated[e]
             /\ \A c \in manifest : files[c.id] = c.sha)
              => /\ \A i \in audit'.issues : i.severity # "error"
                 /\ audit'.verified = Cardinality(manifest)
<1>1. /\ audit'.issues = AuditIssues
      /\ audit'.verified = Cardinality({c \in manifest : Verified(c)})
      /\ manifest \in Manifests
  BY DEF Audit, Loads, HeldOutInv
<1>2. Cardinality({c \in manifest : Verified(c)}) <= Cardinality(manifest)
  BY <1>1, ManifestFacts, FS_Subset
<1>3. ASSUME NEW e \in Editions, manifest = Generated[e],
             \A c \in manifest : files[c.id] = c.sha
      PROVE  /\ \A i \in AuditIssues : i.severity # "error"
             /\ {c \in manifest : Verified(c)} = manifest
  <2>1. Unleaked(manifest) /\ \A c \in manifest : c.sha.kind = "wav"
    BY <1>3, GeneratedUnleaked
  <2>2. \A c \in manifest : c.sha \notin {Absent, Escaped}
    BY <1>1, AudioAssumption
  <2>3. \A c \in manifest : Verified(c)
    BY <1>3, <2>1, <2>2 DEF Verified, Intact, Readable
  <2>4. AuditIssues = Repeated
    <3>1. {FileIssue(c) : c \in {d \in manifest : ~Verified(d)}} = {}
      BY <2>3
    <3>2. Leakage = {}
      BY <2>1, LeakageReal
    <3> QED
      BY <3>1, <3>2 DEF AuditIssues
  <2>5. \A i \in Repeated : i.severity = "warning"
    <3> DEFINE G == {h \in Shared(LAMBDA c : c.words) :
                       Cardinality(h) > 1 /\ Cardinality(Splits(h)) = 1}
    <3>1. Repeated = {[severity |-> "warning", code |-> "duplicate_transcript",
                       ids |-> Ids(g)] : g \in G}
      BY DEF Repeated
    <3> HIDE DEF G
    <3> QED
      BY <3>1
  <2> QED
    BY <2>3, <2>4, <2>5
<1> QED
  BY <1>1, <1>2, <1>3

\* The audit passes what the generator completed, with every file verified, if no
\* sentence of the test voice is also another voice's: a taxonomy for which one is
\* would leak a transcript across the splits (scripts/generate_synthetic_benchmark.py,
\* _render_text).
THEOREM GeneratedPassesAudit ==
  ASSUME TestVoiceApart
  PROVE  StudySpec => GeneratedPasses
<1> DEFINE Passes ==
      audit' # audit =>
        /\ audit'.verified <= Cardinality(manifest)
        /\ (/\ \E e \in Editions : manifest = Generated[e]
            /\ \A c \in manifest : files[c.id] = c.sha)
             => /\ \A i \in audit'.issues : i.severity # "error"
                /\ audit'.verified = Cardinality(manifest)
<1>1. ASSUME HeldOutInv, [StudyNext]_studyVars
      PROVE  Passes
  <2>1. CASE audit' = audit
    BY <2>1
  <2>2. CASE Audit
    BY <1>1, <2>2, AuditPasses
  <2> HIDE DEF Passes
  <2> QED
    BY <1>1, <2>1, <2>2
       DEF StudyNext, BenchmarkNext, Generate, ReplaceAudio, RefusedManifest, Evaluate,
           RefuseDataset, ExperimentCrashes, Experiment, studyVars, benchmarkVars
<1>2. HeldOutInv /\ [StudyNext]_studyVars => [Passes]_benchmarkVars
  <2> HIDE DEF Passes
  <2> QED
    BY <1>1
<1>3. StudySpec => [][Passes]_benchmarkVars
  <2> HIDE DEF Passes
  <2> QED
    BY <1>2, HeldOutInit, HeldOutStep, PTL DEF StudySpec
<1> QED
  BY <1>3 DEF GeneratedPasses
================================================================================
