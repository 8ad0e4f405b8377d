# FinVoice AI: a specification of its concurrent and stateful parts

FinVoice AI is a support assistant one talks to: audio arrives in chunks over a
WebSocket or as one upload, is cut into utterances and transcribed; questions
are answered from approved documents or escalated to a person; tools are called
through a gateway that authorizes and audits. Beside it stand a speech benchmark
and a study of intents that is run on it. This directory holds TLA+ modules
translated from that code, TLC configurations that check them on small
instances, and proofs that TLAPS checks for every instance. `PROJECT.json` maps
each definition to the lines it models, and lists the hazards and the
properties that watch over them. Paths below are relative to
`src/finvoice_ai/` unless they begin with `README`, `docs` or `scripts`.

## 1. The system and its parts

| Component | State it keeps | Operations | Modules |
|---|---|---|---|
| Streaming session (`streaming/session.py`) | phase, utterance buffer and its counters, active response, cancel callback, response generation | `accept`, `start_response`, `complete_response` | `VoiceTurn`, `StreamingSession`, `MCStreamingSession`, `StreamingSession_proofs` |
| Session manager and WebSocket route (`streaming/session.py`, `api/streaming.py`) | registry of sessions, last activity, the session each socket holds, a gauge | `get_or_create`, `cleanup_inactive`, `remove`, the route's life cycle | `StreamingManager`, `MCStreamingManager`, `StreamingManager_proofs` |
| Tool gateway (`tools/`, `api/demo_tools.py`) | audit events, call metric, ticket list | `execute`, `authorize`, two handlers | `ToolGateway`, `MCToolGateway`, `ToolGateway_proofs` |
| Conversation service (`application/`, `domain/`) | the record store of each service; per request, what was retrieved, generated and decided | `respond` | `Conversation`, `Conversation_proofs` |
| Speech analysis (`speech/`, `api/routes.py`) | one request's detector state and segments | load, `detect`, `prepare_speech_samples`, `transcribe` | `SpeechAnalysis`, `MCSpeechAnalysis`, `SpeechAnalysis_proofs` |
| Local providers, fault injectors (`infrastructure/`, `resilience.py`) | none, or a seeded generator | `retrieve`, `generate`, `save` | choices inside `Conversation`, `SpeechAnalysis` |
| MCP server (`mcp_server.py`) | none | forwards to the gateway | callers of `ToolGateway` |
| Observability and the request middleware (`observability.py`, `main.py`) | counters, durations, the list of spans; per request, its open operations | `operation`, `export`, `observe_request`, a scrape | `Observability`, `Observability_proofs` |
| Embedding cache (`research/acoustic.py`) | one file for each audio hash and file name of a model revision | `get_or_create` | `EmbeddingCache`, `MCEmbeddingCache`, `EmbeddingCache_proofs` |
| Benchmark generator (`scripts/generate_synthetic_benchmark.py`) | audio files, the manifest | `generate` | `SpeechBenchmark` |
| Speech evaluation (`evaluation/`) | the audit's report, the runner's reports | audit, run, summarize, compare | `Measures`, `SpeechBenchmark` |
| Research pipeline (`research/`) | the study's report | `load_research_dataset`, `run_experiment` | `ResearchStudy`, `MCResearchStudy`, `ResearchStudy_proofs` |
| HTTP wiring, settings, document loader, pages | none of their own | | not modelled |

**How they interact.** The WebSocket route is a coroutine per connection on one
event loop. It asks the manager for a session by name, calls `accept` for each
chunk and sends the events it returns; the manager gives every socket of one
name the same object. A session calls two pieces of code it does not own: the
transcriber, and the cancel callback of a response it interrupts. The HTTP
routes are plain functions and run on a pool of threads; those threads share
one gateway (`api/demo_tools.py:15`) but no conversation service: the route builds
a service and its store anew for each request (`api/routes.py:56-61`), and only the
warm part of `scripts/production_benchmark.py` calls one service from several
threads. Every request passes through the middleware, which opens an operation; what it calls opens others inside. The
generator, the audit, the runner and the study are commands that somebody runs
one after another in one directory: they share its files and nothing else.

**What is hard, and what makes each part correct.**

* *Session.* Chunks repeat and arrive out of order; several limits are reached
  by one chunk; a completion comes late or twice; a response is superseded; the
  cancel callback calls back into the session in the middle of `accept`, or
  raises there. Correct means: the buffer is an unbroken prefix of the utterance;
  there is one live response, the right one, and never one while the caller is
  being heard; a response ends once and is cancelled at most once; the client is
  told what was decided; announced speech comes to an end.
* *Manager.* Sockets share names, expire while serving, are refused and leave in
  any order. Correct means: no session survives its sockets, a session is only
  taken away for a reason, and the gauge follows the registry.
* *Gateway.* Threads interleave between authorization, effect, metric, audit and
  answer. Correct means: the audit says what happened, tickets were authorized
  and confirmed, every call is answered.
* *Conversation.* Any provider may raise anything at any point, and a generator
  may cite anything. Correct means: an automated answer is grounded in what was retrieved
  for that request and permitted by policy; nothing is shown to a provider that
  policy keeps back; what is stored is what was said.
* *Speech analysis.* Frame boundaries, exact limits, a short last frame, floating
  point. Correct means: the scan finds exactly the stretches of speech of a
  reference definition, only their samples are prepared, and bad audio reaches
  no provider.
* *Observability.* Spans end on several threads and are kept in a list without a
  lock; one request moves several counters, and a scrape may fall between any two.
  Correct means: spans stay in order and few, only overlapping exports lose one,
  and the numbers of a scrape agree up to the request that is just ending.
* *Embedding cache.* Processes share files, die while writing them, and two
  revisions may have one file name. Correct means: nobody is given an embedding
  that is not his, an entry is not replaced, and damage has a cause.
* *Benchmark and study.* Commands run in any order while files change under them;
  rates, slices, percentiles and calibration must agree with each other; what is
  selected must be selected on other cases than it is tested on. Correct means: an
  audit without errors vouches for what is evaluated next, reports add up, a test
  voice is in no other role, and nothing better was passed over.

## 2. The modules and how they correspond to the code

### VoiceTurn and StreamingSession

`VoiceTurn` is what a session promises with no audio in sight: an utterance is
quiet, spoken, then final; only a final utterance is answered; the assistant is
silent before speech is announced; a response that is over never returns.

`StreamingSession` is the session. Its variables are the fields of the class
(`phase`, `utterance`, `buf`, `active`, `cancel`, `generation`), what the last
call returned (`reply`), and three histories that only properties read: what the
client was told (`heard`), the fate of each response, and how often its callback
was called.

`accept` is one action per way through it: `Reject` (`_validate`), `Duplicate`,
`OutOfOrder`, `BufferLimit`, `Extend`, `StartSpeech`, `BargeIn`,
`BargeInCallsCancel`. The reset that precedes the duplicate and order checks is
in all of them (`BufAt`, `PhaseAt`), so a refused chunk that resets the utterance
does so in the model. `Endpoint` is the end of `accept`: finalize, partial, or
neither. Where the code calls the cancel callback the action ends, with
`pc = "cancelling"`: the callback may make response calls, then `CancelReturns`
finishes the chunk or `CancelRaises` abandons it. The callback may not call
`accept`: nothing in the repository hands it a chunk.

Audio is a number of samples and one flag, the RMS test. A rate is in samples per
millisecond, which makes `_duration_ms(n) >= x` the same as `n >= x * rate`.

### StreamingManager

A step is what one coroutine does between two awaits. `OpenExisting`, `OpenNew`
and `OpenRefused` are the ways through `get_or_create` and the gauge that
follows; `RefusalSent` is after the await of the refusal; `Leave` is the route's
`finally`. Objects are numbered in order of creation, and a closed slot is used
again by the next client.

### ToolGateway

A step is what one thread does between two uses of shared state. The call number
is history. The read of the ticket list's length and the append are two steps,
and so are the metric and the audit. A handler sees its arguments as valid,
invalid or unhashable (a category no set can be asked for).

### Conversation

Each request is a call of one service, and each service has a store of its own:
the assignments of services to requests are the route's (one each), the
benchmark's (one for all) and everything between. A step is one provider call with
the local code up to the next. A retriever returns any approved documents, a
generator cites any identifiers, approved or invented; each provider may raise
`ProviderUnavailableError` (`Faults`) or anything else (`Errors`). The store may
fail before or after it kept the record.

### SpeechAnalysis

One request, from upload to answer. The detector's loop is a step per frame, with
its two marks `start` and `last`. Preparation is operators on positions (`Cut`,
`Selected`, `Resampled`) taken in one step. The one place where the code's
seconds are not exact is kept: `RoundedDown` names the frames at which
`(end_seconds - start_seconds) * 1000` of a minimum-length segment comes out
below the minimum in double precision. The recognizer may be missing, be
unavailable, or fail in any other way, when its model is built or when it runs.

### Observability

A request is a task with a stack of open operations. `Begin`, `Leave` and `Raise`
are the ways into and out of the body of `operation`; `CountError` and `Observe`
are its `except` and `finally`, one locked update of the registry each; then the
span ends, and `AppendSpan`, `Slice` and `Store` are the three things that `export`
does with the list. `CountRequest` and `TimeRequest` are the middleware's. Handlers
are on threads and interleave anywhere; the outermost operation's end and the
middleware's updates are on the event loop, with no await between them, which
`LoopFree` and `OnLoop` say. A span is its number in the order of the appends.

### EmbeddingCache

A step of a process is one thing it does with the file: `Exists`, `Read`, `Embed`,
`Open` (which empties the file), `Write`. `Kill` may come before any of them. An
embedding is the pair of audio and revision it was computed from, which is also
what the payload repeats beside it. Two opens of one file may leave a mixture,
`Corrupt`.

### Measures, SpeechBenchmark and ResearchStudy

`Measures` has the pure algorithms: the two-row edit distance, both percentile
functions, the calibration error. Beside the distance and the percentile is what
each is to be: the fewest unpaired and differing units over all pairings in order,
and the nearest rank.

`SpeechBenchmark` is the directory: the manifest, what is at the path of each case,
the audit's report and the runner's. An action is a command (`Generate`, `Audit`,
`Evaluate`), or somebody replacing a file. `Generate` may stop after any number of
files, and also once the manifest is written, by a failure in what follows it; it
writes through a link that leads out of the directory, which stays one. A hash is
what the file holds; a transcript is its normalized words. `Evaluate` is the whole of the runner: every
case with its failures, scored, and `Summary` and `SliceSummaries` are the report.

`ResearchStudy` adds the study (`Experiment`): roles, the join with two reports of
the runner, the selection of strength, fusion weight and thresholds on validation
cases, and the evaluation on test cases. How a fitted classifier judges a case is a
constant that the instance ranges over; probabilities are whole percents. That
training transcripts without a word end the study (the vectorizer has no
vocabulary then) is `Learnable`'s.

## 3. The runs

| Run | Bounds | States | What it shows |
|---|---|---|---|
| `session` | 2 utterances, 3 responses, lengths 1 and 6, sequences to 5 | 51k | every property of the session; it implements `VoiceTurn`; announced speech ends |
| `session_faults` | the same, 2 rates, transcriber and callback may raise | 116k | what survives a call that ends half way |
| `manager` | 3 sockets, 3 names, limit 2, 4 objects, clock to 4 | 269k | no leak, no unjustified removal, the gauge |
| `gateway` | 2 threads, 3 calls, 10 kinds of request | 159k | audit, tickets, metric, every call answered |
| `conversation` | 2 requests, 2 services, 2 documents and an invented one, 2 citations, every fault and error | 295k | grounded, permitted, recorded, ended |
| `speech` | all patterns of 9 frames, two leads, 4 rates, 9 broken uploads, every fault | 486k | the scan against its reference, preparation, rejection |
| `embeddings` | 3 processes, 2 audio files, 2 revisions with one file name | 2.4M | no wrong embedding, damage has a cause, entries are not replaced |
| `observability` | 2 requests, one operation inside each, 2 spans kept, 5 spans before the last begins | 652k | the span list, a scrape |
| `study` | 2 editions of 2 templates, 14 manifests by hand, 2 reports, 4 recognizers and 15 that say anything, 192 outcomes of the classifiers on three validation cases, 4 on others | 12k | an audit vouches for what follows, what the generator completed passes it, reports add up, test cases are held out, selection is honest |
| `late_completion`, `silence`, `limit` | as small as the case needs | | the disagreements of section 5 |

**Why the bounds are enough.** In `session` the limits are 2, 2, 6 and 7
milliseconds, so each is reached exactly, passed, and passed together with
another by one long chunk (length 6: speech begins and ends in one chunk), and a
partial falls before and after the end. Two utterances are enough to turn from
one to another and back; two response identifiers and three generations let an
identifier be used again and an old completion race a new response under it.
Sequences to 5 allow every repetition and hole before the buffer is full. In
`manager` three sockets and names make two sockets share a name while a third
takes the last place; the clock runs past two expiries. In `gateway` two threads
make every pair of steps overlap and the third call begins after one of them
ended, which `NumbersFollowCalls` needs. In `conversation` the two
requests are of one service or of one each. In `speech` the minimum is 3 frames
and the allowed silence 1: a pattern of 9 frames holds two segments that are kept,
with a pause of 2 or 3 frames between them, or one that is kept before or behind
one that is dropped, and a segment with a bridged silence; the lead of 25 puts it
on the frames where rounding matters. A frame has 2
samples per unit of rate so that a last frame can be cut short, and the
resampling ratios are those of the four supported rates.

In `embeddings` two processes meet on one file in every way while the third, of the
other revision, finds what they left; a killed process may come back. In
`observability` six spans pass through a list of two, so that it is cut several
times and two cuts overlap. In `study` the generator is stopped half way in one
edition over the audio of the other, which is the only way its own commands make
manifest and audio disagree. The manifests by hand are what it never makes: a
transcript in both splits, the validation voice in the test split, an intent that
is not trained on, a voice in two splits, an identifier twice, and audio that is
invalid or truncated. Every hypothesis of up to three words meets references of up
to three, by which time insertions, deletions and substitutions tie. Of the manifests by hand one has three validation cases, two of one intent
and one of the other, and all three are judged by any of four tables for each
predictor. They make equal scores and scores that only fusion reaches; thresholds
above 0.0 that are the lowest to reach the accuracy, several with equal coverage
and some with less coverage than others; thresholds that a part of the cases
reaches; and predictors for which none is eligible. That each of these occurs was
confirmed by having TLC find a state where it does. One manifest has twenty cases, so
that 95 percent of them is a whole rank.
`ceil(q * n)` in double precision was compared with exact arithmetic for the two
quantiles in use and every n below 3000: they agree.

**Fairness.** The session's `FairSpec` assumes a client that keeps sending the
next chunk of its utterance, which is what streaming is, and that a cancel
callback, an ordinary function on the event loop, comes to an end; nothing is
assumed of responses. The gateway and the conversation assume that a thread
serving a request keeps running, and that providers return or raise. The
manager's and the detector's properties need no fairness, nor do those of the
last three runs: a process may be killed for good and nobody has to run a command.

**Deadlock** is checked where the system runs for ever (`session`, `manager`,
`embeddings`). The others stop when their bounded calls are answered, and their
configurations say so.

**Symmetry** is used for the manager only, over sockets and names, whose run
checks no liveness.

Every property of a passing run has a mutant in `PROJECT.json`: a plausible bug
in one mapped definition under which TLC finds the property violated. The
properties with several things to say have several: samples dropped, played out of
order or not resampled (`PreparedFromSpeech`), segments ended early, put in front
or dropped at the minimum (`SegmentsAreIslands`), a weight or a threshold chosen
badly (`SelectionHonest`).

## 4. What is proved

`StreamingSession_proofs` proves, for every set of chunks, every configuration
and every fault, from the assumptions on constants that the module states (the
thresholds are positive, `None` is no identifier, a chunk has the fields of
`PcmChunk`):

* `TypeCorrect`: `Spec => []TypeOK`. Its inductive invariant adds `Untouched`
  (no utterance means idle): without it a first chunk could be looked at in a
  phase that has no buffer.
* `BufferIsSound`: `Spec => []BufferSound`. The invariant `BufferInv` adds that
  an utterance still listened to has had no partial: silence there sets the
  speech count back to zero, below which `lastPartial` must not be left.
* `ResponseIsOwned`, `CancelsOnce`: `Spec => []ResponseOwned`,
  `Spec => []CancelledOnce`. The invariant `ResponseInv` adds that the active
  generation is a token, that no later token was used, and that inside the
  cancel callback the phase is speech with nothing active. That last part is why
  a callback that calls the session can neither start nor complete a response.
* `FateIsFinal`: `Spec => FateFinal`, the action property, from `ResponseInv`.

The steps are one per action; the lemmas `ValidChunk`, `BufferedFields` and
`EndpointEffect` say once what a valid chunk is, what counting it does, and how
`accept` may end.

With the abstract specification `Turn` (`VoiceTurn` under its refinement mapping):

* `ImplementsTurn`: `Spec => TurnSpec`, the session implements `VoiceTurn`, when
  the transcriber does not raise; cancel callbacks may raise and may call the
  session. The invariant `HeardInv` relates what the client was told to the
  phase. The proof has one lemma per action of `VoiceTurn` in the session's
  terms and one step per action of the session. If the transcriber raises, the
  refinement fails as it should: a response can start though the client was
  never told `finalized`.
* `TurnNeverTalks`, `NeverTalksOverCaller`: `VoiceTurn` never talks over the
  caller, and so the session does not.
* `ClientIsInformed`: `[]ClientInformed`, when nothing raises.
* `EndpointIsPrompt`: `[]EndpointPrompt`, when no cancel callback raises. One
  that does abandons the chunk before its limits are tested.
* `AudioIsTakenOnce`: `Spec => AudioOnce`, with no condition on faults.

So every property of the run `session` is proved but its liveness.

The other components, each for any number of its actors:

* `StreamingManager_proofs`: `[]TypeOK`, `[]NoLeak`, `RemovalJustified`,
  `GaugeFollows`, and that the registry is within its limit. The invariant adds to
  `NoLeak` that the gauge shows at least what is registered; without it the gauge
  could pass the limit. Counting names rests on lemmas about cardinality.
* `ToolGateway_proofs`: `[]TypeOK`, `[]TicketsAuthorized`, `[]NumbersFollowCalls`,
  `[]AuditFaithful`, `[]MetricMatchesAudit`. The invariant says for each thread what
  its place means (`ThreadOK`: past authorization the call is permitted, the number
  it read is at most the next one, with what is audited and appended so far), that a
  call has one thread, and that every call answered before another was made had its
  ticket in the list by then. `NumbersFollowCalls` needs the last part. The metric and
  the bounds of `TypeOK` need counting (`Tally`): what the metric or the ticket list
  holds, with the threads that have yet to add to it, is no more than the calls made.
  So there must be finitely many threads (`ThreadAssumption`: a pool).
* `Conversation_proofs`: `[]TypeOK`, `[]AnswersGrounded`, `[]SensitiveKeptBack`,
  `[]RecordedOnce`, whichever requests share a service. The invariant is local to a request (what is known of it by the
  place it has reached) but for the relation between its place and the store of its service.
* `SpeechAnalysis_proofs`: all four properties of the run `speech`, for patterns of
  any length, any rate, lead, allowed silence and minimum. `ScanInv` is the
  invariant of the one-pass scan: the segments kept are the islands behind the mark
  `start`, in order; `start` and `last` are the ends of the island being read, with
  silence before the one and no more than a pause after the other. `PreparedIsSpeech`
  says of every sample the recognizer is given when it sounds among the segments
  played one after another, and how many there are. It follows positions through
  `Cut`, `Selected` and `Resampled`, counts what lies before each of them, and needs
  the arithmetic of the resampling ratio. Its hypothesis, `MinimumFrames > 1`, is the
  code's: `api/routes.py:89` builds the detector with its defaults, 60 ms of 20 ms
  frames (`speech/vad.py:9-11`). A detector that kept a segment of one frame could cut
  it to one sample and resample that to none.
* `EmbeddingCache_proofs`: `[]TypeOK`, `[]NoWrongEmbedding`, `[]DamageHasACause`,
  `Frozen`. The invariant adds that a file's name gives the audio of what it holds,
  that two calls at work on a file have marked it as shared, and that a call alone
  on its file knows what is there. The second is what lets a step of one process
  leave what another knows alone.
* `Observability_proofs`: `[]ScrapeConsistent` and `[]SpansSound`, for any depth of
  nesting and any number of spans. For the first the invariant adds that the
  outermost open operation, and no other, is the request's; that one request at most
  is in the part the event loop does not leave; and that the compared numbers are
  equal but for what that request has yet to count. For the second it adds that what
  an exporter holds is in order and within the limit, and that while no two exports
  have met there is one at most, and what the list and its hands hold is known
  exactly. Exporters are counted, so there are finitely many (`TaskAssumption`: a
  pool of threads).
* `ResearchStudy_proofs`, about `SpeechBenchmark` and `ResearchStudy` together, for
  any manifests, taxonomies, recognizers and classifiers:
  `TestCasesAreHeldOut` (`[]HeldOut`), whose invariant adds that the manifest of an
  audit without errors has neither a transcript nor audio in two splits; `AuditVouchesForReports`
  (`AuditVouches`), whose invariant adds that such an audit found in every file what
  the manifest names; `GeneratedPassesAudit` (`GeneratedPasses`) and
  `SelectionIsHonest` (`[]SelectionHonest`). The last two have a hypothesis each.
  `TestVoiceApart`: no sentence of the test voice is also a sentence of another
  voice. A taxonomy for which it fails leaks, and the audit says so; it was evaluated
  for the repository's own taxonomy, where it is true. `Percents`: the probabilities
  of a fitted classifier are between 0 and 100 percent, which scikit-learn promises.
  That a best score exists at all rests on lemmas about maxima over finite sets and
  on the fact that the macro F1 score is a number (`Metrics`).

Assumptions on constants that these theorems need, named in the modules that declare
them and evaluated by TLC in every run: threads and requests in progress are finitely
many; a taxonomy is a sequence; a manifest made by hand is a finite set of cases; no
audio is the marker of an absent file or of one outside the root; the generator's
runs are of editions, stopped after a number of files; there is a strength to choose.

**Only model-checked.** Liveness (`SpeechEnds`, `EveryCallAnswered`,
`EveryRequestEnds`: liveness under fairness is beyond the prover), and `ReportsAddUp`,
which compares recursive definitions and folds (the edit distance, sums over results,
percentiles, the calibration error) with what they stand for. The library's induction
theorems cannot be used here, since they take an operator as a parameter; where
induction over data was needed it was done on the set of counterexamples, which has
a least element. No module uses `RECURSIVE`.

Proving changed the model in one place: `Role` was a `CASE` two of whose guards could
hold at once, for which TLA+ does not say which is taken, whereas the code asks one
after the other; it is a nested `IF` now. `AuditVouches` and `GeneratedPasses` were
one property.

## 5. Where the code and what is said of it disagree

Each has a run in which TLC finds the quoted statement violated.

* `late_completion`: `complete_response` sets the phase to idle whatever it is.
  If the caller has begun the next utterance meanwhile, no chunk of it is
  examined for speech any more (`README.md:459`).
* `silence`: an utterance without speech is never finalized. It fills the
  buffer, after which the session refuses every chunk, of that utterance with
  `buffer_limit`, of another with `invalid_transition` (`README.md:459-460`).
* `limit`: a session evicted or removed under its name is still served by the
  socket that holds it and no longer counted, so more are served than the limit
  (`README.md:461-462`).

Met on the way, with no run of their own: a WAV file shorter than its header is
answered 500 (`docs/production-evidence.md:55` says 422; `Truncated` models it);
a session found by name is returned however long it was inactive, since cleanup
runs only when one is created (`README.md:461`); an out-of-order first chunk is
refused after its utterance was already adopted (`README.md:456-457`); after
finalization the WebSocket route starts no response, so a connection serves one
utterance and then refuses others; a call of an unknown tool fails before the try
block and is not recorded (`README.md:235`; `AuditFaithful` says so); the policy and
the store are outside the `try` of `respond`, so a `ProviderUnavailableError` of
theirs leaves it (`README.md:129-132`; `Leak` models it, and `EveryRequestEnds` counts
such a request as ended); 60 ms of speech is dropped at 1217 of the
2990 positions it can begin at in a minute of audio, since the subtraction at
`speech/vad.py:80` rounds down there (`RoundedDown`, which is part of the reference of
`SegmentsAreIslands`).

Of the parts beside the service: a cache file left by a killed process is never
repaired, and every later run fails on it (`Frozen`); two spans that end at once may
cost a third its place in the list (`SpansSound` allows it only then);
`docs/bilingual-benchmark-workflow.md:73` says of the audit that "Errors block
evaluation.", but the runner neither asks for an audit nor compares hashes, so this
is up to whoever runs the commands (`AuditVouches` says what holds if they do); a
truncated WAV ends the audit with an error of `struct` in place of an issue; reports
are compared and joined by case identifiers alone, so reports of different editions
of a dataset go together unnoticed; when no threshold reaches the accuracy asked
for, the one chosen is 0.0, which accepts everything; the study reads audio through
links that lead out of the dataset root, where the audit and the runner refuse them.

## 6. Not modelled, and why

Floating point (BM25 ranking, RMS, interpolation, audio transforms, features, the
fitting of classifiers, the likelihood a temperature is chosen by) is beyond TLC; a
decision made from it is a choice, a flag or a constant. Random numbers (the
bootstrap intervals) are left out. Texts, timestamps, metric hooks other than the
counters properties read, gauges but the manager's, identifiers' format, log lines
and the publisher's tables are left out. The character error rate is the same
computation on letters as the word error rate on words; the ablations repeat the
study's evaluation on other features; the retrieval and production benchmarks call
modelled services and average what they measure. The MCP protocol, Starlette,
OpenTelemetry, scikit-learn and the recognizer are libraries. Page code is a client
of the routes; settings and the document loader run once, before any request.

A composition of manager, route and sessions is not a module of its own. The session
model takes chunks of any client and utterance in any order, which is all that two
sockets on one object can do to it: each `accept` is one step of the event loop.
The manager's model has what they do to the registry.

## 7. What could follow

In order of what they would add: `ReportsAddUp` as a theorem (that sums over slices
are the sum over the whole, and that the edit distance is the fewest edits for
words of any length); a tighter `NoLeak` that bounds how long a session outlives its
last chunk.
