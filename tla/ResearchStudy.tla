---------------------------- MODULE ResearchStudy -----------------------------
(***************************************************************************)
(* The intent study on the speech benchmark (research/dataset.py,          *)
(* contracts.py, experiment.py, evaluation.py, fusion.py): its dataset is  *)
(* the benchmark's manifest and two reports of the runner; regularization, *)
(* fusion weight and abstention thresholds are selected on validation      *)
(* cases, and the test cases are then evaluated.                           *)
(*                                                                         *)
(* The classifiers and the temperature scaling are libraries' and floating *)
(* point's: what a fitted classifier gives a case is a constant here, for  *)
(* the checked instance to range over. Probabilities are whole percents.   *)
(***************************************************************************)
EXTENDS SpeechBenchmark

CONSTANTS
  Strengths,         \* the regularization strengths, least value first
  Fitted(_),         \* Fitted(report): bound: how the classifiers may turn out for a
                     \* development report: which family text, acoustics and their
                     \* concatenation are, and the temperature of each predictor
  Likelihood(_, _, _, _),  \* Likelihood(family, strength, case, label), in percents
  Scaled(_, _),      \* Scaled(temperature, percents)
  Letters,           \* the words of a single character
  MinimumAccuracy    \* config.abstention_minimum_accuracy

ASSUME AccuracyAssumption == MinimumAccuracy \in 0..100
ASSUME StrengthAssumption == Strengths # <<>> /\ Strengths \in Seq(Range(Strengths))

VARIABLE study       \* the experiment's report, with the tables behind it; or Absent

studyVars == <<benchmarkVars, study>>

\* The intents in the order classes are kept in.
ClassOrder == <<"card_security", "money_transfer", "pin_reset", "statement_access",
                "unrelated_request">>
FirstOf(labels) ==
  ClassOrder[Min({i \in DOMAIN ClassOrder : ClassOrder[i] \in labels})]
Label(c) == c.dims.intent_id
Labels(cases) == {Label(c) : c \in cases}

----------------------------------------------------------------------------
(***************************************************************************)
(* load_research_dataset. The reports are joined to the manifest by the    *)
(* identifiers of cases alone.                                             *)
(***************************************************************************)
\* Mutant of Role: the validation voice is looked for before the split.
RoleByVoice(c) ==
  IF c.dims.speaker_id = "voice-c" THEN "validation"
  ELSE IF c.split = "test" THEN "test" ELSE "train"
Role(c) ==
  IF c.split = "test" THEN "test"
  ELSE IF c.dims.speaker_id = "voice-c" THEN "validation" ELSE "train"

InRole(m, role) == {c \in m : Role(c) = role}

\* An identifier in both reports, one missing from them, or one more than the
\* manifest's refuses the dataset.
Joined(development, test) ==
  /\ development # Absent /\ test # Absent
  /\ Ids(development.cases) \intersect Ids(test.cases) = {}
  /\ Ids(development.cases) \union Ids(test.cases) = Ids(manifest)

DatasetValid ==
  /\ \A c, d \in manifest : c.dims.speaker_id = d.dims.speaker_id => Role(c) = Role(d)
  /\ \A role \in {"train", "validation", "test"} : InRole(manifest, role) # {}

\* The features are read from the files of all cases, through links too, and their
\* hashes are not compared.
FeaturesReadable ==
  \A c \in manifest : Readable(c) => files[c.id].kind = "wav"
FilesPresent == \A c \in manifest : files[c.id] # Absent

----------------------------------------------------------------------------
(***************************************************************************)
(* Predictions: for each case, the percents each class is given.           *)
(***************************************************************************)
Predictions(family, strength, cases, classes) ==
  [c \in cases |-> [l \in classes |-> Likelihood(family, strength, c, l)]]

MostLikely(row) == FirstOf({l \in DOMAIN row : \A k \in DOMAIN row : row[k] <= row[l]})
Confidence(row) == Max(Range(row))

\* MajorityIntentBaseline: the most frequent label of the training cases.
MajorityLabel(cases) ==
  LET count(l) == Cardinality({c \in cases : Label(c) = l}) IN
  FirstOf({l \in Labels(cases) : \A k \in Labels(cases) : count(k) <= count(l)})
MajorityPredictions(training, cases) ==
  [c \in cases |->
    [l \in Labels(training) |-> IF l = MajorityLabel(training) THEN 100 ELSE 0]]

\* late_fuse, for the weight of w quarters on text.
LateFuse(text, acoustic, w) ==
  [c \in DOMAIN text |->
    [l \in DOMAIN text[c] |-> (w * text[c][l] + (4 - w) * acoustic[c][l]) \div 4]]

TemperatureScaled(predictions, temperature) ==
  [c \in DOMAIN predictions |->
    [l \in DOMAIN predictions[c] |-> Scaled(temperature, predictions[c][l])]]

----------------------------------------------------------------------------
(***************************************************************************)
(* evaluate_predictions.                                                   *)
(***************************************************************************)
Accepted(predictions, threshold) ==
  {c \in DOMAIN predictions : Confidence(predictions[c]) >= threshold}
Right(predictions, cases) ==
  {c \in cases : MostLikely(predictions[c]) = Label(c)}

\* f1_score(average = "macro"), times Scale.
MacroF1(predictions) ==
  LET judged == {<<c, MostLikely(predictions[c])>> : c \in DOMAIN predictions}
      seen == {Label(j[1]) : j \in judged} \union {j[2] : j \in judged}
      labelled(l) == {j \in judged : Label(j[1]) = l}
      predicted(l) == {j \in judged : j[2] = l}
      f1(l) == (Scale * 2 * Cardinality(labelled(l) \intersect predicted(l)))
                 \div (Cardinality(labelled(l)) + Cardinality(predicted(l)))
  IN MapThenSumSet(f1, seen) \div Cardinality(seen)

Metrics(predictions, threshold) ==
  LET accepted == Accepted(predictions, threshold) IN
  [cases |-> Cardinality(DOMAIN predictions),
   accepted |-> Cardinality(accepted),
   right |-> Cardinality(Right(predictions, accepted))]

----------------------------------------------------------------------------
(***************************************************************************)
(* Selection. Python's max keeps the first of equals.                      *)
(***************************************************************************)
FirstBest(candidates, better(_, _)) ==
  CHOOSE a \in candidates : \A b \in candidates \ {a} : better(a, b)

\* _select_model: the best score, and of equal ones the least strength.
SelectStrength(table) ==
  FirstBest(DOMAIN Strengths, LAMBDA a, b :
    \/ MacroF1(table[a]) > MacroF1(table[b])
    \/ MacroF1(table[a]) = MacroF1(table[b]) /\ a < b)

\* _select_fusion_weight: the best score, then the weight nearest to one half.
FromHalf(w) == IF w < 2 THEN 2 - w ELSE w - 2
\* Mutant of SelectWeight: the weight nearest to one half, and then the best score.
SelectWeightByHalf(text, acoustic) ==
  LET score(w) == MacroF1(LateFuse(text, acoustic, w)) IN
  FirstBest(0..4, LAMBDA a, b :
    \/ FromHalf(a) < FromHalf(b)
    \/ FromHalf(a) = FromHalf(b) /\ score(a) > score(b)
    \/ FromHalf(a) = FromHalf(b) /\ score(a) = score(b) /\ a < b)
SelectWeight(text, acoustic) ==
  LET score(w) == MacroF1(LateFuse(text, acoustic, w)) IN
  FirstBest(0..4, LAMBDA a, b :
    \/ score(a) > score(b)
    \/ score(a) = score(b) /\ FromHalf(a) < FromHalf(b)
    \/ score(a) = score(b) /\ FromHalf(a) = FromHalf(b) /\ a < b)

\* select_abstention_threshold: of the thresholds that reach the accuracy on what
\* they accept, the one that accepts most, and of equal ones the lowest; zero when
\* none does, which accepts everything.
Thresholds == {0, 40, 50, 60, 70, 80, 90}
Eligible(predictions) ==
  {t \in Thresholds : LET m == Metrics(predictions, t) IN
     m.accepted > 0 /\ 100 * m.right >= MinimumAccuracy * m.accepted}

\* Mutant of SelectThreshold: of the thresholds that reach the accuracy, the highest.
SelectThresholdHighest(predictions) ==
  IF Eligible(predictions) = {} THEN 0 ELSE Max(Eligible(predictions))
SelectThreshold(predictions) ==
  IF Eligible(predictions) = {} THEN 0
  ELSE FirstBest(Eligible(predictions), LAMBDA a, b :
    LET more(t) == Metrics(predictions, t).accepted IN
    more(a) > more(b) \/ (more(a) = more(b) /\ a < b))

----------------------------------------------------------------------------
Kinds == {"text", "acoustic", "concatenated_fusion"}
Predictors == Kinds \union {"late_fusion"}
WithFusion(tables, weight) ==
  [name \in Predictors |->
    IF name = "late_fusion" THEN LateFuse(tables["text"], tables["acoustic"], weight)
    ELSE tables[name]]

\* run_experiment, on the validation cases: what is selected, and from what.
Selection(fitted) ==
  LET labels == Labels(InRole(manifest, "train"))
      validation == InRole(manifest, "validation")
      table(kind) == [s \in DOMAIN Strengths |->
        Predictions(fitted[kind], Strengths[s], validation, labels)]
      strengths == [kind \in Kinds |-> SelectStrength(table(kind))]
      chosen == [kind \in Kinds |-> table(kind)[strengths[kind]]]
      weight == SelectWeight(chosen["text"], chosen["acoustic"])
      sets == WithFusion(chosen, weight)
      calibrated == [name \in Predictors |->
        TemperatureScaled(sets[name], fitted.temperature[name])]
  IN [fitted |-> fitted, strengths |-> strengths, weight |-> weight,
      thresholds |-> [name \in Predictors |-> SelectThreshold(calibrated[name])],
      sets |-> sets, calibrated |-> calibrated]

\* ... and on the test cases, each model under its threshold.
TestResults(s) ==
  LET training == InRole(manifest, "train")
      test == InRole(manifest, "test")
      sets == WithFusion([kind \in Kinds |->
        Predictions(s.fitted[kind], Strengths[s.strengths[kind]], test, Labels(training))],
        s.weight)
  IN [name \in Predictors \union {"majority"} |->
       IF name = "majority" THEN Metrics(MajorityPredictions(training, test), 0)
       ELSE Metrics(TemperatureScaled(sets[name], s.fitted.temperature[name]),
                    s.thresholds[name])]

----------------------------------------------------------------------------
StudyInit == Init /\ study = Absent

\* The experiment does not get to a dataset ...
RefuseDataset(development, test) ==
  /\ Loads
  /\ ~(Joined(report[development], report[test]) /\ DatasetValid)
  /\ outcome' = "refused"
  /\ UNCHANGED <<manifest, files, audit, report, study>>

\* ... or fails on it: an audio file is missing or unreadable (what a link outside
\* the dataset root leads to may be either); a validation or test label was never
\* trained on, which is a KeyError of the scores; there is one label to train on; or
\* no hypothesis to train on has a word that the vectorizer keeps, of two characters
\* or more.
Learnable(development, test) ==
  /\ Labels(manifest) = Labels(InRole(manifest, "train"))
  /\ Cardinality(Labels(manifest)) > 1
  /\ \E r \in development.cases \union test.cases :
       /\ r.id \in Ids(InRole(manifest, "train"))
       /\ ~(Range(r.hypothesis) \subseteq Letters)

ExperimentCrashes(development, test) ==
  /\ Loads /\ Joined(report[development], report[test]) /\ DatasetValid
  /\ \/ ~FilesPresent \/ ~FeaturesReadable
     \/ ~Learnable(report[development], report[test])
     \/ \E c \in manifest : files[c.id] = Escaped
  /\ outcome' = "crashed"
  /\ UNCHANGED <<manifest, files, audit, report, study>>

Experiment(development, test) ==
  /\ Loads /\ Joined(report[development], report[test]) /\ DatasetValid
  /\ FilesPresent /\ FeaturesReadable
  /\ Learnable(report[development], report[test])
  /\ \E fitted \in Fitted(report[development]) :
       LET selection == Selection(fitted) IN
       study' = [manifest |-> manifest, selection |-> selection,
                 roles |-> [c \in manifest |-> Role(c)],
                 results |-> TestResults(selection)]
  /\ outcome' = "ok"
  /\ UNCHANGED <<manifest, files, audit, report>>

\* Bound: a behaviour ends with its first study.
StudyNext ==
  /\ study = Absent
  /\ \/ BenchmarkNext /\ UNCHANGED study
     \/ \E development, test \in Slots :
          \/ RefuseDataset(development, test)
          \/ ExperimentCrashes(development, test)
          \/ Experiment(development, test)

StudySpec == StudyInit /\ [][StudyNext]_studyVars

----------------------------------------------------------------------------
(***************************************************************************)
(* Properties.                                                             *)
(***************************************************************************)

\* What a study trained or selected on is kept from what it is tested on: its test
\* cases are the benchmark's test split, no voice is in two roles, and when an audit
\* of that manifest found no error, no transcript and no audio of the test cases is
\* in the training or validation cases either.
HeldOut ==
  study # Absent =>
    LET m == study.manifest
        used == {c \in m : study.roles[c] # "test"} IN
    /\ m \ used = {c \in m : c.split = "test"}
    /\ used # {} /\ m \ used # {}
    /\ \A c, d \in m : study.roles[c] # study.roles[d] =>
         c.dims.speaker_id # d.dims.speaker_id
    /\ AuditValid(audit) /\ audit.manifest = m =>
         \A c \in used, d \in m \ used : c.words # d.words /\ c.sha # d.sha

\* What was selected is, on the validation cases, at least as good as what was
\* passed over: fusion scores no less than text and acoustics alone; a threshold is
\* positive only if it reaches the accuracy and accepting everything does not, and
\* then no other that does accepts more.
SelectionHonest ==
  study # Absent =>
    LET s == study.selection IN
    /\ MacroF1(s.sets["late_fusion"]) >= MacroF1(s.sets["text"])
    /\ MacroF1(s.sets["late_fusion"]) >= MacroF1(s.sets["acoustic"])
    /\ \A name \in Predictors :
         LET p == s.calibrated[name]
             t == s.thresholds[name]
             meets(u) == /\ Accepted(p, u) # {}
                         /\ 100 * Cardinality(Right(p, Accepted(p, u)))
                              >= MinimumAccuracy * Cardinality(Accepted(p, u))
         IN /\ t > 0 => meets(t) /\ ~meets(0)
            /\ \A u \in Thresholds : meets(u) =>
                 meets(t) /\ Accepted(p, u) \subseteq Accepted(p, t)
================================================================================
