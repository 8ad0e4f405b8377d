------------------------------- MODULE Measures -------------------------------
(***************************************************************************)
(* The numbers the speech reports are made of: the edit distance behind    *)
(* the word and character error rates (evaluation/speech.py), percentiles  *)
(* (observability.py, evaluation/speech_report.py) and the calibration     *)
(* error; and beside each what it is to be.                                *)
(*                                                                         *)
(* Probabilities, confidences and quantiles are whole percents.            *)
(***************************************************************************)
EXTENDS Integers, Sequences, SequencesExt, FiniteSetsExt

----------------------------------------------------------------------------
\* _levenshtein_distance: the row of one unit of the reference, cell by cell from
\* the row before it. Cell j is the distance to the first j - 1 units.
Cell(same, left, above, diagonal) ==
  Min({left + 1, above + 1, diagonal + (IF same THEN 0 ELSE 1)})

Row(unit, i, hypothesis, previous) ==
  FoldLeftDomain(LAMBDA row, j :
      Append(row, Cell(unit = hypothesis[j], Last(row), previous[j + 1], previous[j])),
    <<i>>, hypothesis)

EditDistance(reference, hypothesis) ==
  Last(FoldLeftDomain(LAMBDA row, i : Row(reference[i], i, hypothesis, row),
         [j \in 1..(Len(hypothesis) + 1) |-> j - 1], reference))

\* What an edit distance is: the units that are not paired with one of the other
\* sequence, and the pairs that differ, when as few as can be with pairs in order.
\* The units at s of the reference are paired with those at t of the hypothesis.
Partner(i, s, t) ==
  CHOOSE j \in t : Cardinality({k \in t : k < j}) = Cardinality({k \in s : k < i})
Pairing(s, t, reference, hypothesis) ==
  Len(reference) + Len(hypothesis) - 2 * Cardinality(s)
    + Cardinality({i \in s : reference[i] # hypothesis[Partner(i, s, t)]})

FewestEdits(reference, hypothesis) ==
  Min(UNION {{Pairing(s, t, reference, hypothesis) :
                t \in kSubset(Cardinality(s), DOMAIN hypothesis)} :
              s \in SUBSET DOMAIN reference})

----------------------------------------------------------------------------
Ceiling(percents) == (percents + 99) \div 100
Sorted(values) == SortSeq(values, <)
Larger(a, b) == IF a > b THEN a ELSE b
Smaller(a, b) == IF a < b THEN a ELSE b

\* Mutant of ReportPercentile: the rank is one too high when it is a whole number.
ReportPercentileAbove(values, quantile) ==
  IF values = <<>> THEN 0
  ELSE Sorted(values)[Smaller((quantile * Len(values)) \div 100 + 1, Len(values))]

\* speech_report._percentile
ReportPercentile(values, quantile) ==
  IF values = <<>> THEN 0
  ELSE Sorted(values)[Larger(0, Ceiling(quantile * Len(values)) - 1) + 1]

\* observability.percentile, which the production benchmark uses.
ServicePercentile(values, quantile) ==
  IF values = <<>> THEN 0
  ELSE Sorted(values)[Smaller(Len(values) - 1,
                              Larger(0, Ceiling(quantile * Len(values)) - 1)) + 1]

\* What a percentile is: the least value that so many percent do not exceed.
NearestRank(values, quantile) ==
  IF values = <<>> THEN 0
  ELSE Min({v \in Range(values) :
              100 * Cardinality({i \in DOMAIN values : values[i] <= v})
                >= quantile * Len(values)})

----------------------------------------------------------------------------
\* _expected_calibration_error, as 100 * n times its value: over the ten bins of
\* confidence, how far the right answers are from the confidence they were given
\* with. A judgement is [confidence, right].
InBin(confidence, bin) ==
  10 * bin <= confidence /\ (confidence < 10 * (bin + 1) \/ bin = 9)

Gap(judgements) ==
  LET gap == MapThenSumSet(LAMBDA j : (IF j.right THEN 100 ELSE 0) - j.confidence,
                           judgements)
  IN IF gap < 0 THEN -gap ELSE gap

CalibrationError(judgements) ==
  MapThenSumSet(LAMBDA bin : Gap({j \in judgements : InBin(j.confidence, bin)}), 0..9)
================================================================================
