--------------------------- MODULE SpeechBenchmark ----------------------------
(***************************************************************************)
(* The speech benchmark: its generator, the integrity audit, the runner    *)
(* that evaluates a recognizer over one split, the report's summaries and  *)
(* the comparison of two reports (evaluation/, scripts/). Each is a        *)
(* command of its own; they meet only in the files they leave: the         *)
(* manifest, the audio and the reports. Nothing keeps them in step.        *)
(*                                                                         *)
(* A transcript is the sequence of its normalized words. An audio file is  *)
(* known by its hash, and so is written as what it holds, a record with at *)
(* least "kind": "wav", "invalid" (the loader refuses it) or "truncated"   *)
(* (the loader fails with an error of struct's).                           *)
(***************************************************************************)
EXTENDS Measures, TLC

CONSTANTS
  Editions,        \* taxonomies the generator may be run on, as sequences of templates
  HandMade,        \* manifests written by hand
  Suffix,          \* Suffix[language][v]: what voice v + 1 adds to a sentence
  Tried(_),        \* Tried(manifest): bound: the evaluations of a manifest, as pairs
                   \* of a model and a split
  Heard(_, _),     \* Heard(model, audio): its transcription, or Raises
  Latency(_, _),   \* how long that took
  Raises,
  Absent,          \* no such file
  Escaped,         \* a link to a file outside the dataset root
  Slots,           \* names of report files
  Scale,           \* a multiple of every number a rate is divided by
  Runs(_),         \* Runs(manifest): bound: the generator's runs beside a manifest, as
                   \* pairs of an edition and how many cases they get to
  Replacements(_)  \* Replacements(manifest): bound: <<path, content>>, what a file may
                   \* be replaced by beside a manifest

ASSUME ScaleAssumption == Scale \in Nat /\ \A n \in 1..4 : Scale % n = 0
ASSUME EditionAssumption == \A e \in Editions : e \in Seq(Range(e))
ASSUME HandMadeAssumption ==
  \A m \in HandMade : IsFiniteSet(m) /\ \A c \in m : c.split \in {"development", "test"}

Dimensions == {"language", "language_mode", "noise_condition", "device",
               "speaker_id", "intent_id", "utterance_type"}

----------------------------------------------------------------------------
(***************************************************************************)
(* The generator's manifest. A manifest is a set of cases: an identifier,  *)
(* the path and hash of its audio, its transcript, split and dimensions.   *)
(***************************************************************************)
Voices == <<[speaker |-> "voice-a", split |-> "development"],
            [speaker |-> "voice-b", split |-> "development"],
            [speaker |-> "voice-c", split |-> "development"],
            [speaker |-> "voice-d", split |-> "test"]>>
Noises == <<"clean", "household", "street", "cafe">>

\* Mutant of RenderedText: the last voice, like the first, adds nothing.
RenderedTextPlain(template, v) ==
  template.text \o (IF v \in {1, 4} THEN <<>> ELSE Suffix[template.language][v - 1])
RenderedText(template, v) ==
  template.text \o (IF v = 1 THEN <<>> ELSE Suffix[template.language][v - 1])

\* The case of template t (from 1) read by voice v (from 1).
GeneratedCase(templates, v, t) ==
  LET template == templates[t]
      spoken == RenderedText(template, v)
      noise == Noises[((t + v - 2) % 4) + 1]
      device == IF (t + v) % 2 = 1 THEN "phone-simulated" ELSE "high-quality"
  IN [id |-> <<template.template_id, Voices[v].speaker>>,
      words |-> spoken,
      sha |-> [kind |-> "wav", voice |-> Voices[v].speaker, spoken |-> spoken,
               noise |-> noise, device |-> device],
      split |-> Voices[v].split,
      dims |-> [language |-> template.language, language_mode |-> template.language_mode,
                noise_condition |-> noise, device |-> device,
                speaker_id |-> Voices[v].speaker, intent_id |-> template.intent_id,
                utterance_type |-> template.utterance_type]]

\* In the order the generator writes them: voice by voice.
GeneratedOrder(templates) ==
  FlattenSeq([v \in DOMAIN Voices |->
    [t \in DOMAIN templates |-> GeneratedCase(templates, v, t)]])
Order == [e \in Editions |-> GeneratedOrder(e)]
Generated == [e \in Editions |-> Range(Order[e])]
Manifests == HandMade \union Range(Generated)

ASSUME AudioAssumption == \A c \in UNION Manifests : c.sha \notin {Absent, Escaped}
ASSUME RunsAssumption ==
  \A m \in Manifests \union {Absent} : \A g \in Runs(m) : g \in Editions \X Nat

\* SpeechEvaluationManifest's validators.
ManifestValid(m) ==
  /\ m # {}
  /\ \A c, d \in m : c.id = d.id => c = d
  /\ \A c, d \in m : c.dims.speaker_id = d.dims.speaker_id => c.split = d.split
ValidManifests == {m \in Manifests : ManifestValid(m)}

----------------------------------------------------------------------------
VARIABLES
  manifest,   \* the manifest file, or Absent
  files,      \* what is at the path of each case (its identifier stands for it)
  audit,      \* the last audit's report, with what it looked at; or Absent
  report,     \* what each report file holds
  outcome     \* how the last command ended

benchmarkVars == <<manifest, files, audit, report, outcome>>

Paths == {c.id : c \in UNION Manifests}

Init ==
  /\ manifest \in HandMade \union {Absent}
  /\ files = [p \in Paths |->
       IF manifest # Absent /\ \E c \in manifest : c.id = p
       THEN (CHOOSE c \in manifest : c.id = p).sha ELSE Absent]
  /\ audit = Absent
  /\ report = [s \in Slots |-> Absent]
  /\ outcome = "ok"

\* generate(): the audio is written case by case, through the links there may be, and
\* then the manifest. It stops when a command it runs fails: half way, or when it asks
\* the commands for their versions, after the manifest.
Generate(edition, stop) ==
  LET order == Order[edition]
      written == Range(SubSeq(order, 1, Smaller(stop, Len(order)))) IN
  /\ files' = [p \in Paths |->
       IF files[p] # Escaped /\ \E c \in written : c.id = p
       THEN (CHOOSE c \in written : c.id = p).sha ELSE files[p]]
  /\ IF stop >= Len(order)
     THEN manifest' = Generated[edition] /\ outcome' \in {"ok", "crashed"}
     ELSE outcome' = "crashed" /\ UNCHANGED manifest
  /\ UNCHANGED <<audit, report>>

\* Somebody replaces or removes an audio file.
ReplaceAudio(p, content) ==
  /\ files[p] # content
  /\ files' = [files EXCEPT ![p] = content]
  /\ UNCHANGED <<manifest, audit, report, outcome>>

\* Every command reads and validates the manifest before anything else.
Loads == manifest # Absent /\ manifest \in ValidManifests
RefusedManifest ==
  /\ ~Loads
  /\ outcome' = "refused"
  /\ UNCHANGED <<manifest, files, audit, report>>

----------------------------------------------------------------------------
(***************************************************************************)
(* audit_speech_dataset.                                                   *)
(***************************************************************************)
Readable(c) == files[c.id] \notin {Absent, Escaped}

\* Mutant of Intact: a file's hash is not compared.
IntactUnhashed(c) == Readable(c)
Intact(c) == Readable(c) /\ files[c.id] = c.sha
Verified(c) == Intact(c) /\ files[c.id].kind = "wav"

FileIssue(c) ==
  [severity |-> "error", ids |-> {c.id},
   code |-> CASE files[c.id] = Escaped -> "unsafe_path"
              [] files[c.id] = Absent -> "missing_audio"
              [] Readable(c) /\ ~Intact(c) -> "hash_mismatch"
              [] OTHER -> "invalid_wav"]

\* The cases that share a value, for each value that more than one has.
Shared(key(_)) == {{c \in manifest : key(c) = key(d)} : d \in manifest}
Splits(cases) == {c.split : c \in cases}
Ids(cases) == {c.id : c \in cases}

CrossSplit(code, key(_)) ==
  {[severity |-> "error", code |-> code, ids |-> Ids(g)] :
     g \in {h \in Shared(key) : Cardinality(Splits(h)) > 1}}

Leakage == CrossSplit("transcript_leakage", LAMBDA c : c.words)
             \union CrossSplit("audio_leakage", LAMBDA c : c.sha)

Repeated ==
  {[severity |-> "warning", code |-> "duplicate_transcript", ids |-> Ids(g)] :
     g \in {h \in Shared(LAMBDA c : c.words) :
              Cardinality(h) > 1 /\ Cardinality(Splits(h)) = 1}}

AuditIssues == {FileIssue(c) : c \in {d \in manifest : ~Verified(d)}}
                 \union Leakage \union Repeated

\* Only the loader's own error is caught: a truncated file ends the audit.
AuditCrashes == \E c \in manifest : Intact(c) /\ files[c.id].kind = "truncated"

Audit ==
  /\ Loads
  /\ IF AuditCrashes
     THEN outcome' = "crashed" /\ UNCHANGED audit
     ELSE /\ audit' = [manifest |-> manifest, files |-> files, issues |-> AuditIssues,
                       verified |-> Cardinality({c \in manifest : Verified(c)})]
          /\ outcome' = IF \E i \in AuditIssues : i.severity = "error"
                        THEN "failures" ELSE "ok"
  /\ UNCHANGED <<manifest, files, report>>

AuditValid(a) == a # Absent /\ \A i \in a.issues : i.severity # "error"

----------------------------------------------------------------------------
(***************************************************************************)
(* SpeechEvaluationRunner. It reads whatever is at the path: it compares   *)
(* no hash. A case it cannot read, or the service fails on, is scored as   *)
(* the empty transcript.                                                   *)
(***************************************************************************)
Transcribed(model, c) ==
  IF ~Readable(c) \/ files[c.id].kind # "wav" THEN Raises
  ELSE Heard(model, files[c.id])

Elapsed(model, c) == IF Readable(c) THEN Latency(model, files[c.id]) ELSE 0

Result(model, c) ==
  LET heard == Transcribed(model, c)
      failed == heard = Raises
      hypothesis == IF failed THEN <<>> ELSE heard.words IN
  [id |-> c.id, dims |-> c.dims, model |-> model,
   status |-> IF failed THEN "failed" ELSE "success",
   hypothesis |-> hypothesis,
   detected |-> IF failed THEN "und" ELSE heard.language,
   confidence |-> IF failed THEN 0 ELSE heard.confidence,
   errors |-> EditDistance(c.words, hypothesis),
   units |-> Len(c.words),
   latency |-> Elapsed(model, c)]

Selected(m, split) == {c \in m : split \in {"all", c.split}}

\* Bound: each report file is written once.
Evaluate(model, split, slot) ==
  /\ Loads /\ report[slot] = Absent
  /\ LET results == {Result(model, c) : c \in Selected(manifest, split)} IN
     /\ report' = [report EXCEPT ![slot] = [split |-> split, cases |-> results]]
     /\ outcome' = IF \E r \in results : r.status = "failed" THEN "failures" ELSE "ok"
  /\ UNCHANGED <<manifest, files, audit>>

----------------------------------------------------------------------------
(***************************************************************************)
(* The report: its summary over any set of results, and the slices.        *)
(***************************************************************************)
Rate(r) == (Scale * r.errors) \div Larger(1, r.units)

LanguageMatches(r) ==
  r.detected \in CASE r.dims.language = "en-fil" -> {"en", "fil"}
                   [] OTHER -> {r.dims.language}

Latencies(results) ==
  FoldSet(LAMBDA r, values : Append(values, r.latency), <<>>, results)

Judgements(results) ==
  {[id |-> r.id, confidence |-> r.confidence, right |-> r.errors = 0] : r \in results}

Summary(results) ==
  [cases |-> Cardinality(results),
   failures |-> Cardinality({r \in results : r.status = "failed"}),
   errors |-> MapThenSumSet(LAMBDA r : r.errors, results),
   units |-> MapThenSumSet(LAMBDA r : r.units, results),
   rates |-> MapThenSumSet(Rate, results),
   identified |-> Cardinality({r \in results : LanguageMatches(r)}),
   calibration |-> CalibrationError(Judgements(results)),
   p50 |-> ReportPercentile(Latencies(results), 50),
   p95 |-> ReportPercentile(Latencies(results), 95)]

\* Mutant of Slice: a slice is of the successful cases only.
SliceOfSuccesses(results, dimension, value) ==
  Summary({r \in results : r.dims[dimension] = value /\ r.status = "success"})
Slice(results, dimension, value) ==
  Summary({r \in results : r.dims[dimension] = value})

\* build_slice_summaries, for one dimension.
SliceSummaries(results, dimension) ==
  [value \in {r.dims[dimension] : r \in results} |-> Slice(results, dimension, value)]

\* compare_reports refuses anything but two development reports of the same case
\* identifiers, each of one model; then it pairs them case by case.
SingleModel(a) == Cardinality({r.model : r \in a.cases}) = 1
Comparable(a, b) ==
  /\ a.split = "development" /\ b.split = "development"
  /\ Ids(a.cases) = Ids(b.cases)
  /\ SingleModel(a) /\ SingleModel(b)
ResultFor(a, id) == CHOOSE r \in a.cases : r.id = id
PairedDelta(a, b) ==
  MapThenSumSet(LAMBDA id : Rate(ResultFor(b, id)) - Rate(ResultFor(a, id)), Ids(a.cases))

----------------------------------------------------------------------------
BenchmarkNext ==
  \/ \E g \in Runs(manifest) : Generate(g[1], g[2])
  \/ \E r \in Replacements(manifest) : ReplaceAudio(r[1], r[2])
  \/ RefusedManifest
  \/ Audit
  \/ Loads /\ \E e \in Tried(manifest), slot \in Slots : Evaluate(e[1], e[2], slot)

----------------------------------------------------------------------------
(***************************************************************************)
(* Properties.                                                             *)
(***************************************************************************)

\* An audit vouches for what follows it: while neither the manifest nor a file has
\* changed since an audit without errors, every hypothesis of a new report is what
\* the recognizer makes of the very audio the manifest names, and a case fails only
\* when the recognizer does.
StillAudited == AuditValid(audit) /\ audit.manifest = manifest /\ audit.files = files

AuditVouches ==
  [][\A s \in Slots : report'[s] # report[s] /\ StillAudited =>
       \A r \in report'[s].cases :
         LET named == (CHOOSE c \in manifest : c.id = r.id).sha IN
         IF r.status = "failed" THEN Heard(r.model, named) = Raises
         ELSE r.hypothesis = Heard(r.model, named).words]_benchmarkVars

\* An audit verifies no more files than there are cases, and what the generator
\* completed passes it, untouched, with every file verified: no sentence of the test
\* voice is one that another voice says, and no file is in two splits.
GeneratedPasses ==
  [][audit' # audit =>
       /\ audit'.verified <= Cardinality(manifest)
       /\ (/\ \E e \in Editions : manifest = Generated[e]
           /\ \A c \in manifest : files[c.id] = c.sha)
            => /\ \A i \in audit'.issues : i.severity # "error"
               /\ audit'.verified = Cardinality(manifest)]_benchmarkVars

\* The numbers of a report agree with each other and with their definitions. The
\* errors of a case are the fewest edits, and all its words when it failed; the
\* slices of a dimension sum up to the whole, and a single slice is the whole;
\* latencies are nearest-rank percentiles; no case falls out of the calibration
\* bins; and the paired difference of two reports is that of their averages.
Sums == {"cases", "failures", "errors", "units", "rates", "identified"}

Within(whole, slices) ==
  /\ \A field \in Sums :
       whole[field] = MapThenSumSet(LAMBDA v : slices[v][field], DOMAIN slices)
  /\ whole.p50 <= whole.p95
  /\ \A v \in DOMAIN slices :
       /\ slices[v].cases > 0
       /\ Cardinality(DOMAIN slices) = 1 => slices[v] = whole

CaseScored(r) ==
  LET reference == (CHOOSE c \in manifest : c.id = r.id).words IN
  /\ r.errors = FewestEdits(reference, r.hypothesis)
  /\ r.status = "failed" => r.errors = r.units

AddsUp(a) ==
  LET whole == Summary(a.cases)
      overconfidence == MapThenSumSet(LAMBDA r :
        r.confidence - (IF r.errors = 0 THEN 100 ELSE 0), a.cases) IN
  /\ Ids(a.cases) = Ids(Selected(manifest, a.split))
  /\ \A r \in a.cases : CaseScored(r)
  /\ \A d \in Dimensions : Within(whole, SliceSummaries(a.cases, d))
  /\ \A q \in {<<"p50", 50>>, <<"p95", 95>>} :
       /\ whole[q[1]] = NearestRank(Latencies(a.cases), q[2])
       /\ whole[q[1]] = ServicePercentile(Latencies(a.cases), q[2])
  /\ whole.calibration >= overconfidence /\ whole.calibration >= -overconfidence
  /\ whole.calibration <= 100 * whole.cases

ReportsAddUp ==
  [][\A s \in Slots : report'[s] # report[s] =>
       /\ AddsUp(report'[s])
       /\ \A t \in Slots : report'[t] # Absent /\ Comparable(report'[s], report'[t]) =>
            PairedDelta(report'[s], report'[t])
              = Summary(report'[t].cases).rates - Summary(report'[s].cases).rates
    ]_benchmarkVars
================================================================================
