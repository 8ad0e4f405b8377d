---------------------------- MODULE SpeechAnalysis ----------------------------
(***************************************************************************)
(* One POST /v1/audio/analyze: the upload limit, the choice of provider,   *)
(* PcmWavLoader, EnergyVoiceActivityDetector.detect, the preparation of    *)
(* the speech samples and the transcription (api/routes.py, speech/).      *)
(*                                                                         *)
(* Each request builds its own service and shares nothing, so one request  *)
(* is the whole system. The detector's loop is modelled frame by frame.    *)
(* A rate is a multiple of 8 kHz and a frame of 20 ms has FrameLength      *)
(* samples per unit of rate (160 in the code). What a frame sounds like is *)
(* whether its RMS reaches the threshold; mean_rms, scores and texts are   *)
(* left out. Seconds times rate are whole numbers of samples at the rates  *)
(* the loader supports, so positions are samples; the one place where the  *)
(* code's seconds are not exact is kept, in TooShort.                      *)
(***************************************************************************)
EXTENDS Integers, Sequences, FiniteSets

CONSTANTS
  Uploads,         \* the uploads a client may send
  SupportedRates,  \* PcmWavLoader.SUPPORTED_SAMPLE_RATES
  TargetRate,      \* ASR_SAMPLE_RATE_HZ
  FrameLength,     \* samples of a frame, per unit of rate
  MaximumFrames,   \* maximum_duration_seconds, in frames
  MinimumFrames,   \* minimum_speech_ms, in frames
  AllowedSilence,  \* maximum_silence_ms, in frames
  RoundedDown,     \* the frames f at which the double (f + m)/50 - f/50, for
                   \* m = MinimumFrames, comes out below m/50
  Providers,       \* values settings.transcription_provider may have
  Faults           \* "dependency": not installed, "transcriber": unavailable,
                   \* "recognizer": raises anything else

Upload ==
  [oversized: BOOLEAN, readable: BOOLEAN, channels: Nat, width: Nat,
   compressed: BOOLEAN, rate: Nat \ {0}, declared: Nat, present: Nat,
   voiced: Seq(BOOLEAN)]

FrameSize(rate) == FrameLength * rate
Frames(samples, rate) == (samples + FrameSize(rate) - 1) \div FrameSize(rate)

ASSUME SizeAssumption ==
  /\ SupportedRates \subseteq Nat \ {0} /\ TargetRate \in Nat \ {0}
  /\ FrameLength \in Nat \ {0} /\ MaximumFrames \in Nat
  /\ MinimumFrames \in Nat \ {0} /\ AllowedSilence \in Nat
  /\ RoundedDown \subseteq Nat
ASSUME ProviderAssumption == Providers \subseteq {"deterministic", "faster_whisper"}
ASSUME FaultAssumption == Faults \subseteq {"dependency", "transcriber", "recognizer"}
ASSUME UploadAssumption ==
  \A u \in Uploads :
    /\ u \in Upload /\ u.present <= u.declared
    /\ Len(u.voiced) = Frames(u.present, u.rate)

VARIABLES
  at,         \* where the call is
  upload,     \* the upload it serves
  provider,   \* settings.transcription_provider
  index,      \* the frame detect looks at, from 0
  start,      \* start_frame
  last,       \* last_voiced_frame
  segments,   \* the segments appended, first and last frame of each
  prepared,   \* the source position of each sample given to the recognizer
  consulted,  \* history: the provider's transcribe was called
  heard,      \* whether the transcription has a text
  status      \* the HTTP status, 0 before there is one

scanVars == <<index, start, last, segments>>
vars == <<at, upload, provider, scanVars, prepared, consulted, heard, status>>

None == -1

Init ==
  /\ at = "upload"
  /\ upload \in Uploads
  /\ provider \in Providers
  /\ index = 0 /\ start = None /\ last = None /\ segments = <<>>
  /\ prepared = <<>>
  /\ consulted = FALSE
  /\ heard = FALSE
  /\ status = 0

Answer(code) ==
  /\ at' = "done"
  /\ status' = code

----------------------------------------------------------------------------
TooLarge ==
  /\ at = "upload"
  /\ upload.oversized
  /\ Answer(413)
  /\ UNCHANGED <<upload, provider, scanVars, prepared, consulted, heard>>

\* build_transcription_provider loads the recognizer before the audio is read: it
\* may not be installed, and the route translates no other error of its model.
ProviderMissing ==
  /\ at = "upload"
  /\ ~upload.oversized
  /\ provider = "faster_whisper"
  /\ \/ "dependency" \in Faults /\ Answer(503)
     \/ "recognizer" \in Faults /\ Answer(500)
  /\ UNCHANGED <<upload, provider, scanVars, prepared, consulted, heard>>

BuildService ==
  /\ at = "upload"
  /\ ~upload.oversized
  /\ at' = "load"
  /\ UNCHANGED <<upload, provider, scanVars, prepared, consulted, heard, status>>

\* Mutant of Supported: the sample width is not looked at.
SupportedAnyWidth(u) ==
  /\ u.readable /\ u.channels = 1 /\ ~u.compressed
  /\ u.rate \in SupportedRates
  /\ u.declared <= MaximumFrames * FrameSize(u.rate)

Supported(u) ==
  /\ u.readable /\ u.channels = 1 /\ u.width = 2 /\ ~u.compressed
  /\ u.rate \in SupportedRates
  /\ u.declared <= MaximumFrames * FrameSize(u.rate)

InvalidAudio ==
  /\ at = "load"
  /\ ~Supported(upload)
  /\ Answer(422)
  /\ UNCHANGED <<upload, provider, scanVars, prepared, consulted, heard>>

\* The header declares more frames than the file holds: struct.unpack raises,
\* and nothing catches struct.error.
Truncated ==
  /\ at = "load"
  /\ Supported(upload)
  /\ upload.present < upload.declared
  /\ Answer(500)
  /\ UNCHANGED <<upload, provider, scanVars, prepared, consulted, heard>>

Load ==
  /\ at = "load"
  /\ Supported(upload)
  /\ upload.present = upload.declared
  /\ at' = "scan"
  /\ UNCHANGED <<upload, provider, scanVars, prepared, consulted, heard, status>>

----------------------------------------------------------------------------
(***************************************************************************)
(* detect.                                                                 *)
(***************************************************************************)

\* Mutant of TooShort: speech of exactly the minimum is too short everywhere.
TooShortAtMinimum(first, end) == end - first < MinimumFrames

\* _append_segment's test, (end_seconds - start_seconds) * 1_000 < minimum.
TooShort(first, end) ==
  \/ end - first + 1 < MinimumFrames
  \/ end - first + 1 = MinimumFrames /\ first \in RoundedDown

\* Mutant of Appended: the latest segment is put first.
AppendedInFront ==
  IF TooShort(start, last) THEN segments
  ELSE <<[first |-> start, end |-> last]>> \o segments

Appended ==
  IF TooShort(start, last) THEN segments
  ELSE Append(segments, [first |-> start, end |-> last])

Scanning == at = "scan" /\ index < Len(upload.voiced)
Voiced == upload.voiced[index + 1]

\* Mutant of PauseOver: a silence of the allowed length ends the segment.
PauseOverEarly == start # None /\ index - last >= AllowedSilence
PauseOver == start # None /\ index - last > AllowedSilence

\* Mutant of VoicedFrame: the segment begins before its first voiced frame.
VoicedFramePreRoll ==
  /\ Scanning /\ Voiced
  /\ start' = IF start = None THEN index - AllowedSilence - 1 ELSE start
  /\ last' = index
  /\ index' = index + 1
  /\ UNCHANGED <<at, upload, provider, segments, prepared, consulted, heard, status>>

VoicedFrame ==
  /\ Scanning /\ Voiced
  /\ start' = IF start = None THEN index ELSE start
  /\ last' = index
  /\ index' = index + 1
  /\ UNCHANGED <<at, upload, provider, segments, prepared, consulted, heard, status>>

SilentFrame ==
  /\ Scanning /\ ~Voiced
  /\ ~PauseOver
  /\ index' = index + 1
  /\ UNCHANGED <<at, upload, provider, start, last, segments, prepared, consulted, heard, status>>

CloseSegment ==
  /\ Scanning /\ ~Voiced
  /\ PauseOver
  /\ segments' = Appended
  /\ start' = None /\ last' = None
  /\ index' = index + 1
  /\ UNCHANGED <<at, upload, provider, prepared, consulted, heard, status>>

\* The audio is over; a segment still open is appended.
EndOfAudio ==
  /\ at = "scan"
  /\ index = Len(upload.voiced)
  /\ segments' = IF start = None THEN segments ELSE Appended
  /\ at' = "transcribe"
  /\ UNCHANGED <<upload, provider, index, start, last, prepared, consulted, heard, status>>

----------------------------------------------------------------------------
(***************************************************************************)
(* transcribe, with prepare_speech_samples and resample_linear.            *)
(***************************************************************************)

\* Mutant of Cut: the end of the audio is not looked at.
CutUnclipped(s) ==
  [i \in 1..(s.end + 1 - s.first) * FrameSize(upload.rate) |->
     s.first * FrameSize(upload.rate) + i - 1]

\* The positions of a segment's samples; the last frame may be cut short.
Cut(s) ==
  LET from == s.first * FrameSize(upload.rate)
      end == (s.end + 1) * FrameSize(upload.rate)
      to == IF end < upload.present THEN end ELSE upload.present
  IN [i \in 1..(to - from) |-> from + i - 1]

\* Mutant of Selected: the latest segment comes first.
SelectedBackwards ==
  LET upTo[n \in 0..Len(segments)] ==
        IF n = 0 THEN <<>> ELSE Cut(segments[n]) \o upTo[n - 1]
  IN upTo[Len(segments)]

Selected ==
  LET upTo[n \in 0..Len(segments)] ==
        IF n = 0 THEN <<>> ELSE upTo[n - 1] \o Cut(segments[n])
  IN upTo[Len(segments)]

\* round(length * target / source): never half way between two integers at the
\* supported rates.
ResampledLength(length, rate) == (2 * length * TargetRate + rate) \div (2 * rate)

\* Mutant of Resampled: the samples are given at the rate of the upload.
ResampledAsIs(samples, rate) == samples

\* The left neighbour each output sample is interpolated from.
Resampled(samples, rate) ==
  IF samples = <<>> \/ rate = TargetRate THEN samples
  ELSE [i \in 1..ResampledLength(Len(samples), rate) |->
          LET position == ((i - 1) * rate) \div TargetRate
          IN samples[IF position < Len(samples) THEN position + 1 ELSE Len(samples)]]

\* The stub answers with its transcript when there is a segment.
Stub ==
  /\ at = "transcribe"
  /\ provider = "deterministic"
  /\ consulted' = TRUE
  /\ heard' = (segments # <<>>)
  /\ Answer(200)
  /\ UNCHANGED <<upload, provider, scanVars, prepared>>

\* Faster Whisper prepares the samples and is asked only if there are some. It
\* may hear no words in them.
Whisper ==
  /\ at = "transcribe"
  /\ provider = "faster_whisper"
  /\ prepared' = Resampled(Selected, upload.rate)
  /\ consulted' = (prepared' # <<>>)
  /\ heard' \in IF prepared' = <<>> THEN {FALSE} ELSE BOOLEAN
  /\ Answer(200)
  /\ UNCHANGED <<upload, provider, scanVars>>

\* The recognizer fails on the samples, or what it needs to take them is missing.
RecognizerFails ==
  /\ at = "transcribe"
  /\ provider = "faster_whisper"
  /\ prepared' = Resampled(Selected, upload.rate)
  /\ prepared' # <<>>
  /\ consulted' = TRUE
  /\ \/ "dependency" \in Faults /\ Answer(503)
     \/ "recognizer" \in Faults /\ Answer(500)
  /\ UNCHANGED <<upload, provider, scanVars, heard>>

TranscriberUnavailable ==
  /\ at = "transcribe"
  /\ "transcriber" \in Faults
  /\ consulted' = TRUE
  /\ Answer(503)
  /\ UNCHANGED <<upload, provider, scanVars, prepared, heard>>

Detect == VoicedFrame \/ SilentFrame \/ CloseSegment \/ EndOfAudio
Transcribe == Stub \/ Whisper \/ RecognizerFails \/ TranscriberUnavailable

Next ==
  \/ TooLarge \/ ProviderMissing \/ BuildService
  \/ InvalidAudio \/ Truncated \/ Load
  \/ Detect
  \/ Transcribe

Spec == Init /\ [][Next]_vars

----------------------------------------------------------------------------
(***************************************************************************)
(* Properties.                                                             *)
(***************************************************************************)

\* Every variable has its type.
TypeOK ==
  /\ at \in {"upload", "load", "scan", "transcribe", "done"}
  /\ upload \in Uploads
  /\ provider \in Providers
  /\ index \in 0..Len(upload.voiced)
  /\ start \in 0..index \union {None}
  /\ last \in 0..index \union {None}
  /\ segments \in Seq([first: 0..index, end: 0..index])
  /\ prepared \in Seq(Nat)
  /\ consulted \in BOOLEAN
  /\ heard \in BOOLEAN
  /\ status \in {0, 200, 413, 422, 500, 503}

VoicedFrames == {f \in 0..(Len(upload.voiced) - 1) : upload.voiced[f + 1]}

\* The reference: speech is a longest stretch of frames that begins and ends
\* with a voiced one and whose silences are at most AllowedSilence long.
Island(a, b) ==
  /\ {a, b} \subseteq VoicedFrames
  /\ \A f \in a..b : \E v \in VoicedFrames : v \in a..f /\ f - v <= AllowedSilence
  /\ VoicedFrames \intersect (a - 1 - AllowedSilence)..(a - 1) = {}
  /\ VoicedFrames \intersect (b + 1)..(b + 1 + AllowedSilence) = {}

Islands == {i \in VoicedFrames \X VoicedFrames : i[1] <= i[2] /\ Island(i[1], i[2])}

\* Long enough: more frames than the minimum, or as many where the double is exact.
LongEnough(a, b) ==
  b - a + 1 >= MinimumFrames /\ (a \in RoundedDown => b - a + 1 # MinimumFrames)

\* The one-pass scan, with its two moving marks, finds exactly the stretches of
\* the reference that are long enough, in order and once each.
SegmentsAreIslands ==
  at = "transcribe" =>
    /\ {<<segments[i].first, segments[i].end>> : i \in DOMAIN segments} =
         {i \in Islands : LongEnough(i[1], i[2])}
    /\ \A i, j \in DOMAIN segments : i < j => segments[i].end < segments[j].first

\* The positions in the audio that the segments cover.
Spoken ==
  {p \in 0..(upload.present - 1) :
     \E s \in DOMAIN segments :
       p \div FrameSize(upload.rate) \in segments[s].first..segments[s].end}

\* What the recognizer is given is the audio of the segments at its rate: as long, to
\* the nearest sample, as all they cover; and at each moment the sample that sounds
\* then, when what they cover is played in order without the pauses. So no sample is
\* dropped or repeated but as the ratio of the rates asks for it, none is out of order
\* and none comes from a pause. It is given nothing only if there is no segment.
PreparedFromSpeech ==
  LET spoken == Spoken
      before(p) == Cardinality({q \in spoken : q < p}) IN
  /\ status = 200 /\ provider = "faster_whisper" => (prepared = <<>> <=> segments = <<>>)
  /\ prepared # <<>> =>
       2 * Len(prepared) * upload.rate - 2 * Cardinality(spoken) * TargetRate
         \in -upload.rate..upload.rate
  /\ \A i \in DOMAIN prepared :
       /\ prepared[i] \in spoken
       /\ before(prepared[i]) * TargetRate <= (i - 1) * upload.rate
       /\ (i - 1) * upload.rate < (before(prepared[i]) + 1) * TargetRate

\* Audio that is not mono PCM16 at a supported rate within the limits, or not
\* all there, is turned away before the provider runs, and no text is ever
\* made out of silence.
RejectedBeforeProvider ==
  /\ consulted =>
       ~upload.oversized /\ upload.readable /\ upload.channels = 1 /\ upload.width = 2
         /\ ~upload.compressed /\ upload.present = upload.declared
         /\ upload.rate \in SupportedRates
         /\ upload.present <= MaximumFrames * FrameSize(upload.rate)
  /\ heard => Islands # {} /\ consulted /\ status = 200
================================================================================
