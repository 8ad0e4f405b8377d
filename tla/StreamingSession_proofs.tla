------------------------ MODULE StreamingSession_proofs ------------------------
(***************************************************************************)
(* What TLAPS proves of a StreamingSession for any chunks, thresholds,     *)
(* responses and faults: its own invariants, that its client is told what  *)
(* it decides, that it implements VoiceTurn and inherits what VoiceTurn    *)
(* promises, that endpoints are prompt, and that audio is taken once.      *)
(***************************************************************************)
EXTENDS StreamingSession, TLAPS

(***************************************************************************)
(* The constants, as the proofs use them.                                  *)
(***************************************************************************)
USE IdAssumption, ChunkAssumption, ConfigAssumption, BoundAssumption

(***************************************************************************)
(* Facts about a chunk that _validate lets through.                        *)
(***************************************************************************)

\* Before the first chunk there is no utterance and nothing buffered.
Untouched == utterance = NoUtterance => phase = "idle"

\* A valid chunk (what lines 168-223 of session.py let through) names an
\* utterance, has audio, and either continues the utterance at its own rate or
\* opens one while the session is idle or responding.
LEMMA ValidChunk ==
  ASSUME TypeOK, Untouched, NEW c \in Chunks, Valid(c)
  PROVE  /\ c.utterance \in Utterances
         /\ c.sequence \in Nat
         /\ c.rate \in Nat \ {0}
         /\ c.length \in Nat \ {0}
         /\ c.voiced \in BOOLEAN
         /\ NewUtterance(c) => phase \in {"idle", "responding"}
         /\ ~NewUtterance(c) => buf.rate = c.rate
<1>1. c \in Chunk
  OBVIOUS
<1>2. /\ c.utterance \in Utterances \union {NoUtterance}
      /\ c.sequence \in Int /\ c.rate \in Int /\ c.length \in Nat
      /\ c.voiced \in BOOLEAN
  BY <1>1 DEF Chunk
<1>3. /\ c.utterance # NoUtterance /\ ~(c.sequence < 0)
      /\ ~(c.rate <= 0) /\ c.length # 0
  BY DEF Valid, ValidationError
<1>4. ~(utterance = c.utterance /\ buf.rate # c.rate)
  BY <1>3 DEF Valid, ValidationError
<1>5. OtherUtterance(c) => phase \in {"idle", "responding"}
  BY <1>3, <1>4 DEF Valid, ValidationError
<1>6. NewUtterance(c) => phase \in {"idle", "responding"}
  BY <1>3, <1>5 DEF Untouched, NewUtterance, OtherUtterance
<1> QED
  BY <1>2, <1>3, <1>4, <1>6 DEF NewUtterance

\* The buffer a valid chunk is looked at with is a buffer, at the chunk's rate,
\* and the phase is a phase.
LEMMA LookedAt ==
  ASSUME TypeOK, Untouched, NEW c \in Chunks, Valid(c)
  PROVE  /\ BufAt(c) \in Buffers
         /\ BufAt(c).rate = c.rate
         /\ PhaseAt(c) \in Phases
         /\ HeardAt(c) \in {"quiet", "speaking", "final"}
<1> USE ValidChunk
<1>1. CASE NewUtterance(c)
  BY <1>1 DEF BufAt, PhaseAt, HeardAt, Fresh, Buffers, Phases
<1>2. CASE ~NewUtterance(c)
  BY <1>2 DEF BufAt, PhaseAt, HeardAt, TypeOK
<1> QED
  BY <1>1, <1>2

\* What taking a chunk in sequence makes of the buffer.
LEMMA BufferedFields ==
  ASSUME TypeOK, Untouched, NEW c \in Chunks, InSequence(c)
  PROVE  /\ Buffered(c) \in Buffers
         /\ Buffered(c).rate = c.rate
         /\ Buffered(c).seen = BufAt(c).seen \union {BufAt(c).next}
         /\ Buffered(c).next = BufAt(c).next + 1
         /\ Buffered(c).samples = BufAt(c).samples + c.length
         /\ Buffered(c).lastPartial = BufAt(c).lastPartial
         /\ Buffered(c).speech =
              IF c.voiced THEN BufAt(c).speech + c.length
              ELSE IF PhaseAt(c) = "listening" THEN 0 ELSE BufAt(c).speech
         /\ Buffered(c).silence =
              IF c.voiced THEN 0
              ELSE IF PhaseAt(c) = "speech" THEN BufAt(c).silence + c.length
              ELSE BufAt(c).silence
<1>1. Valid(c) /\ c.sequence = BufAt(c).next
  BY DEF InSequence
<1>2. BufAt(c) \in Buffers /\ BufAt(c).rate = c.rate
  BY <1>1, LookedAt
<1>3. c.length \in Nat /\ c.voiced \in BOOLEAN
  BY <1>1, ValidChunk
<1> DEFINE b == BufAt(c)
<1> QED
  BY <1>1, <1>2, <1>3 DEF Buffered, Buffers

\* How accept ends: outside speech nothing moves; in speech the utterance is
\* finalized or goes on, and only the length of the last partial may change.
LEMMA EndpointEffect ==
  ASSUME NEW ph \in Phases, NEW b \in Buffers, NEW events \in Seq(Answers),
         NEW told \in {"quiet", "speaking", "final"},
         heard \in {"quiet", "speaking", "final"},
         Endpoint(ph, b, events, told)
  PROVE  /\ ph # "speech" => phase' = ph
         /\ ph = "speech" => phase' \in {"speech", "finalizing"}
         /\ buf' \in Buffers
         /\ buf' = b \/ buf' = [b EXCEPT !.lastPartial = b.speech]
         /\ reply' \in Seq(Answers)
         /\ heard' \in {"quiet", "speaking", "final"}
<1>1. Append(events, "finalized") \in Seq(Answers)
  BY DEF Answers, Events
<1>2. Append(events, "partial") \in Seq(Answers) /\ <<"raised">> \in Seq(Answers)
  BY DEF Answers, Events
<1>3. b.speech \in Nat /\ [b EXCEPT !.lastPartial = b.speech] \in Buffers
  BY DEF Buffers
<1>4. CASE ph # "speech"
  BY <1>4 DEF Endpoint
<1>5. CASE ph = "speech" /\ UtteranceOver(b)
  <2>1. /\ phase' = "finalizing" /\ buf' = b
        /\ Transcribed(Append(events, "finalized"), "final")
    BY <1>5 DEF Endpoint
  <2> QED
    BY <1>1, <1>2, <1>5, <2>1 DEF Transcribed
<1>6. CASE ph = "speech" /\ ~UtteranceOver(b) /\ PartialDue(b)
  <2>1. /\ phase' = ph /\ buf' = [b EXCEPT !.lastPartial = b.speech]
        /\ Transcribed(Append(events, "partial"), told)
    BY <1>6 DEF Endpoint
  <2> QED
    BY <1>2, <1>3, <1>6, <2>1 DEF Transcribed
<1>7. CASE ph = "speech" /\ ~UtteranceOver(b) /\ ~PartialDue(b)
  BY <1>7 DEF Endpoint
<1> QED
  BY <1>4, <1>5, <1>6, <1>7

----------------------------------------------------------------------------
(***************************************************************************)
(* Type correctness.                                                       *)
(***************************************************************************)

\* The calls that take no audio leave every variable of its type.
LEMMA RefuseTyped ==
  ASSUME TypeOK, Untouched, NEW c \in Chunks, Valid(c),
         NEW code \in Answers, Refuse(c, code)
  PROVE  TypeOK' /\ Untouched'
<1>1. /\ BufAt(c) \in Buffers /\ PhaseAt(c) \in Phases
      /\ HeardAt(c) \in {"quiet", "speaking", "final"}
  BY LookedAt
<1>2. c.utterance \in Utterances
  BY ValidChunk
<1> QED
  BY <1>1, <1>2 DEF Refuse, TypeOK, Untouched, responseVars

\* Taking a chunk's audio leaves the audio variables of their types, whichever
\* way accept ends.
LEMMA AudioTyped ==
  ASSUME TypeOK, Untouched, NEW c \in Chunks, InSequence(c),
         NEW ph \in Phases, NEW events \in Seq(Answers),
         NEW told \in {"quiet", "speaking", "final"},
         utterance' = c.utterance,
         Endpoint(ph, Buffered(c), events, told)
  PROVE  /\ phase' \in Phases
         /\ utterance' \in Utterances
         /\ buf' \in Buffers
         /\ reply' \in Seq(Answers)
         /\ heard' \in {"quiet", "speaking", "final"}
<1>1. Buffered(c) \in Buffers
  BY BufferedFields
<1>2. c.utterance \in Utterances
  BY ValidChunk DEF InSequence
<1>3. heard \in {"quiet", "speaking", "final"}
  BY DEF TypeOK
<1>4. /\ ph # "speech" => phase' = ph
      /\ ph = "speech" => phase' \in {"speech", "finalizing"}
      /\ buf' \in Buffers
      /\ reply' \in Seq(Answers)
      /\ heard' \in {"quiet", "speaking", "final"}
  BY <1>1, <1>3, EndpointEffect
<1> QED
  BY <1>2, <1>4 DEF Phases

\* Recording the fate of a response, and counting a call of its callback, keep
\* the histories functions on the tokens.
LEMMA FateTyped ==
  ASSUME NEW f \in [Tokens -> Fates], NEW g, NEW x \in Fates
  PROVE  [f EXCEPT ![g] = x] \in [Tokens -> Fates]
  OBVIOUS

LEMMA CountTyped ==
  ASSUME NEW f \in [Tokens -> Nat], NEW g
  PROVE  [f EXCEPT ![g] = @ + 1] \in [Tokens -> Nat]
<1>1. CASE g \in Tokens
  BY <1>1
<1>2. CASE g \notin Tokens
  BY <1>2
<1> QED
  BY <1>1, <1>2

\* Letting the active response go leaves the response variables of their types.
LEMMA InterruptTyped ==
  ASSUME TypeOK, Interrupt
  PROVE  /\ active' \in Responses \union {NoResponse}
         /\ cancel' \in BOOLEAN
         /\ generation' \in Nat
         /\ fate' \in [Tokens -> Fates]
<1>1. "cancelled" \in Fates
  BY DEF Fates
<1>2. fate' \in [Tokens -> Fates]
  BY <1>1, FateTyped DEF TypeOK, Interrupt
<1>3. generation' \in Nat
  BY DEF TypeOK, Interrupt
<1>4. active' = NoResponse /\ cancel' = FALSE
  BY DEF Interrupt
<1> QED
  BY <1>2, <1>3, <1>4

\* Every step keeps every variable of its type.
LEMMA TypeStep ==
  TypeOK /\ Untouched /\ [Next]_vars => TypeOK' /\ Untouched'
<1> SUFFICES ASSUME TypeOK, Untouched, [Next]_vars
             PROVE  TypeOK' /\ Untouched'
  OBVIOUS
<1>1. ASSUME NEW c \in Chunks, Accept(c) PROVE TypeOK' /\ Untouched'
  <2>1. CASE Reject(c)
    <3>1. ValidationError(c) \in Errors
      BY <2>1 DEF Reject, Valid, ValidationError, Errors
    <3>2. <<ValidationError(c)>> \in Seq(Answers)
      BY <3>1 DEF Answers
    <3> QED
      BY <2>1, <3>2 DEF Reject, TypeOK, Untouched, audioVars, responseVars
  <2>2. CASE Duplicate(c)
    BY <2>2, RefuseTyped DEF Duplicate, Answers, Events
  <2>3. CASE OutOfOrder(c)
    BY <2>3, RefuseTyped DEF OutOfOrder, Answers, Errors
  <2>4. CASE BufferLimit(c)
    BY <2>4, RefuseTyped DEF BufferLimit, InSequence, Answers, Errors
  <2>5. CASE Extend(c)
    <3>1. PhaseAt(c) \in Phases /\ HeardAt(c) \in {"quiet", "speaking", "final"}
      BY <2>5, LookedAt DEF Extend, InSequence
    <3>2. <<"accepted">> \in Seq(Answers)
      BY DEF Answers, Events
    <3>3. /\ phase' \in Phases /\ utterance' \in Utterances /\ buf' \in Buffers
          /\ reply' \in Seq(Answers) /\ heard' \in {"quiet", "speaking", "final"}
      BY <2>5, <3>1, <3>2, AudioTyped DEF Extend
    <3> QED
      BY <2>5, <3>3 DEF Extend, TypeOK, Untouched, responseVars
  <2>6. CASE StartSpeech(c)
    <3>1. <<"accepted", "speech_started">> \in Seq(Answers)
      BY DEF Answers, Events
    <3>2. "speech" \in Phases
      BY DEF Phases
    <3>3. /\ phase' \in Phases /\ utterance' \in Utterances /\ buf' \in Buffers
          /\ reply' \in Seq(Answers) /\ heard' \in {"quiet", "speaking", "final"}
      BY <2>6, <3>1, <3>2, AudioTyped DEF StartSpeech
    <3> QED
      BY <2>6, <3>3 DEF StartSpeech, TypeOK, Untouched, responseVars
  <2>7. CASE BargeIn(c)
    <3>1. <<"accepted", "interrupted", "speech_started">> \in Seq(Answers)
      BY DEF Answers, Events
    <3>2. "speech" \in Phases
      BY DEF Phases
    <3>3. /\ phase' \in Phases /\ utterance' \in Utterances /\ buf' \in Buffers
          /\ reply' \in Seq(Answers) /\ heard' \in {"quiet", "speaking", "final"}
      BY <2>7, <3>1, <3>2, AudioTyped DEF BargeIn
    <3> QED
      BY <2>7, <3>3, InterruptTyped DEF BargeIn, TypeOK, Untouched
  <2>8. CASE BargeInCallsCancel(c)
    <3>1. Buffered(c) \in Buffers /\ c.utterance \in Utterances
      BY <2>8, BufferedFields, ValidChunk DEF BargeInCallsCancel, InSequence
    <3>2. HeardAt(c) \in {"quiet", "speaking", "final"}
      BY <2>8, LookedAt DEF BargeInCallsCancel, InSequence
    <3>3. cancels' \in [Tokens -> Nat]
      BY <2>8, CountTyped DEF BargeInCallsCancel, TypeOK
    <3> QED
      BY <2>8, <3>1, <3>2, <3>3, InterruptTyped
      DEF BargeInCallsCancel, TypeOK, Untouched, Phases
  <2> QED
    BY <1>1, <2>1, <2>2, <2>3, <2>4, <2>5, <2>6, <2>7, <2>8 DEF Accept
<1>2. CASE CancelReturns
  <2>1. <<"accepted", "interrupted", "speech_started">> \in Seq(Answers)
    BY DEF Answers, Events
  <2>2. phase \in Phases /\ buf \in Buffers /\ heard \in {"quiet", "speaking", "final"}
    BY DEF TypeOK
  <2>3. /\ phase # "speech" => phase' = phase
        /\ phase = "speech" => phase' \in {"speech", "finalizing"}
        /\ buf' \in Buffers
        /\ reply' \in Seq(Answers)
        /\ heard' \in {"quiet", "speaking", "final"}
    BY <1>2, <2>1, <2>2, EndpointEffect DEF CancelReturns
  <2> QED
    BY <1>2, <2>2, <2>3 DEF CancelReturns, TypeOK, Untouched, responseVars, Phases
<1>3. CASE CancelRaises
  BY <1>3 DEF CancelRaises, TypeOK, Untouched, audioVars, responseVars, Answers
<1>4. ASSUME NEW r \in Responses, NEW callback \in BOOLEAN,
             StartResponse(r, callback)
      PROVE  TypeOK' /\ Untouched'
  <2>1. Supersede \in [Tokens -> Fates]
    BY DEF Supersede, TypeOK, Fates
  <2>2. fate' \in [Tokens -> Fates]
    BY <1>4, <2>1 DEF StartResponse, Fates
  <2> QED
    BY <1>4, <2>2 DEF StartResponse, MayRespond, TypeOK, Untouched, Phases, Answers
<1>5. CASE StartRefused
  BY <1>5 DEF StartRefused, TypeOK, Untouched, audioVars, responseVars, Answers
<1>6. ASSUME NEW r \in Responses, NEW g \in Tokens, CompleteResponse(r, g)
      PROVE  TypeOK' /\ Untouched'
  <2>1. "completed" \in Fates
    BY DEF Fates
  <2>2. fate' \in [Tokens -> Fates]
    BY <1>6, <2>1, FateTyped DEF CompleteResponse, TypeOK
  <2>3. <<"completed">> \in Seq(Answers)
    BY DEF Answers
  <2> QED
    BY <1>6, <2>2, <2>3 DEF CompleteResponse, TypeOK, Untouched, Phases
<1>7. ASSUME NEW r \in Responses, NEW g \in Tokens, CompletionStale(r, g)
      PROVE  TypeOK' /\ Untouched'
  BY <1>7 DEF CompletionStale, TypeOK, Untouched, audioVars, responseVars, Answers
<1>8. CASE UNCHANGED vars
  BY <1>8 DEF vars, TypeOK, Untouched
<1> QED
  BY <1>1, <1>2, <1>3, <1>4, <1>5, <1>6, <1>7, <1>8 DEF Next

\* The initial state has the types.
LEMMA InitTyped == Init => TypeOK /\ Untouched
<1> SUFFICES ASSUME Init PROVE TypeOK /\ Untouched
  OBVIOUS
<1>1. buf \in Buffers
  BY DEF Init, Fresh, Buffers
<1>2. fate \in [Tokens -> Fates] /\ cancels \in [Tokens -> Nat]
  BY DEF Init, Fates
<1>3. reply \in Seq(Answers)
  BY DEF Init
<1> QED
  BY <1>1, <1>2, <1>3 DEF Init, TypeOK, Untouched, Phases

\* A session's variables keep their types, whatever chunks, responses,
\* completions and faults come its way.
THEOREM TypeCorrect == Spec => []TypeOK
  BY InitTyped, TypeStep, PTL DEF Spec

----------------------------------------------------------------------------
(***************************************************************************)
(* The buffer. BufferSound is inductive once it is known that an utterance *)
(* still being listened to has had no partial: silence there sets the      *)
(* speech count back to zero, and lastPartial must not be left above it.   *)
(***************************************************************************)

Sound(b) ==
  /\ b.seen = 0..(b.next - 1)
  /\ b.samples <= MaximumBuffer * b.rate
  /\ b.speech + b.silence <= b.samples
  /\ b.lastPartial <= b.speech

NoPartialYet == phase = "listening" => buf.lastPartial = 0

BufferInv == Sound(buf) /\ NoPartialYet

\* An utterance just opened is a sound, empty buffer.
LEMMA FreshSound ==
  ASSUME NEW rate \in Nat
  PROVE  Sound(Fresh(rate)) /\ Fresh(rate).lastPartial = 0
<1>1. 0 <= MaximumBuffer * rate
  OBVIOUS
<1> QED
  BY <1>1 DEF Sound, Fresh

\* The buffer a valid chunk is looked at with is sound.
LEMMA LookedAtSound ==
  ASSUME TypeOK, Untouched, BufferInv, NEW c \in Chunks, Valid(c)
  PROVE  /\ Sound(BufAt(c))
         /\ PhaseAt(c) = "listening" => BufAt(c).lastPartial = 0
<1>1. c.rate \in Nat
  BY ValidChunk
<1> QED
  BY <1>1, FreshSound DEF BufAt, PhaseAt, BufferInv, NoPartialYet

\* Taking in a chunk that is next in sequence and fits keeps the buffer sound.
LEMMA BufferedSound ==
  ASSUME TypeOK, Untouched, BufferInv, NEW c \in Chunks, InSequence(c), Fits(c)
  PROVE  /\ Sound(Buffered(c))
         /\ PhaseAt(c) = "listening" => Buffered(c).lastPartial = 0
<1>1. Valid(c)
  BY DEF InSequence
<1>2. /\ Sound(BufAt(c)) /\ BufAt(c) \in Buffers
      /\ PhaseAt(c) = "listening" => BufAt(c).lastPartial = 0
  BY <1>1, LookedAtSound, LookedAt
<1>3. c.length \in Nat /\ c.voiced \in BOOLEAN
  BY <1>1, ValidChunk
<1> DEFINE b == BufAt(c)
           d == Buffered(c)
<1>4. /\ b.next \in Nat /\ b.samples \in Nat /\ b.speech \in Nat
      /\ b.silence \in Nat /\ b.lastPartial \in Nat
  BY <1>2 DEF Buffers
<1>5. d.seen = 0..(d.next - 1)
  <2>1. d.next = b.next + 1 /\ d.seen = (0..(b.next - 1)) \union {b.next}
    BY <1>2, BufferedFields DEF Sound
  <2>2. \A n \in Nat : (0..(n - 1)) \union {n} = 0..((n + 1) - 1)
    OBVIOUS
  <2> QED
    BY <1>4, <2>1, <2>2
<1>6. d.samples <= MaximumBuffer * d.rate
  BY BufferedFields DEF Fits
<1>7. d.speech + d.silence <= d.samples
  BY <1>2, <1>3, <1>4, BufferedFields DEF Sound
<1>8. d.lastPartial <= d.speech
  BY <1>2, <1>3, <1>4, BufferedFields DEF Sound
<1>9. PhaseAt(c) = "listening" => d.lastPartial = 0
  BY <1>2, BufferedFields
<1> QED
  BY <1>5, <1>6, <1>7, <1>8, <1>9 DEF Sound

\* However accept ends, a sound buffer stays sound; a partial only happens in
\* speech.
LEMMA EndpointSound ==
  ASSUME NEW ph \in Phases, NEW b \in Buffers, NEW events \in Seq(Answers),
         NEW told \in {"quiet", "speaking", "final"},
         heard \in {"quiet", "speaking", "final"},
         Endpoint(ph, b, events, told),
         Sound(b), ph = "listening" => b.lastPartial = 0
  PROVE  BufferInv'
<1>1. /\ ph # "speech" => phase' = ph
      /\ ph = "speech" => phase' \in {"speech", "finalizing"}
      /\ buf' = b \/ buf' = [b EXCEPT !.lastPartial = b.speech]
  BY EndpointEffect
<1>2. ph # "speech" => buf' = b
  BY DEF Endpoint
<1>3. Sound(buf')
  <2>1. CASE buf' = b
    BY <2>1
  <2>2. CASE buf' = [b EXCEPT !.lastPartial = b.speech]
    <3>1. /\ buf'.seen = b.seen /\ buf'.next = b.next /\ buf'.rate = b.rate
          /\ buf'.samples = b.samples /\ buf'.speech = b.speech
          /\ buf'.silence = b.silence /\ buf'.lastPartial = b.speech
      BY <2>2 DEF Buffers
    <3>2. b.speech \in Nat
      BY DEF Buffers
    <3> QED
      BY <3>1, <3>2 DEF Sound
  <2> QED
    BY <1>1, <2>1, <2>2
<1>4. NoPartialYet'
  BY <1>1, <1>2 DEF NoPartialYet
<1> QED
  BY <1>3, <1>4 DEF BufferInv

\* A chunk whose audio is not taken leaves a sound buffer.
LEMMA RefuseSound ==
  ASSUME TypeOK, Untouched, BufferInv, NEW c \in Chunks, Valid(c), NEW code,
         Refuse(c, code)
  PROVE  BufferInv'
  BY LookedAtSound DEF Refuse, BufferInv, NoPartialYet

\* Every step keeps the buffer sound.
LEMMA BufferStep ==
  TypeOK /\ Untouched /\ BufferInv /\ [Next]_vars => BufferInv'
<1> SUFFICES ASSUME TypeOK, Untouched, BufferInv, [Next]_vars
             PROVE  BufferInv'
  OBVIOUS
<1>0. heard \in {"quiet", "speaking", "final"} /\ "speech" \in Phases
  BY DEF TypeOK, Phases
<1>1. ASSUME NEW c \in Chunks, Accept(c) PROVE BufferInv'
  <2>1. CASE Reject(c)
    BY <2>1 DEF Reject, BufferInv, NoPartialYet, audioVars
  <2>2. CASE Duplicate(c) \/ OutOfOrder(c) \/ BufferLimit(c)
    BY <2>2, RefuseSound DEF Duplicate, OutOfOrder, BufferLimit, InSequence
  <2>3. CASE Extend(c)
    <3>1. InSequence(c) /\ Fits(c)
      BY <2>3 DEF Extend
    <3>2. Buffered(c) \in Buffers
      BY <3>1, BufferedFields
    <3>3. PhaseAt(c) \in Phases /\ HeardAt(c) \in {"quiet", "speaking", "final"}
      BY <3>1, LookedAt DEF InSequence
    <3>4. <<"accepted">> \in Seq(Answers)
      BY DEF Answers, Events
    <3>5. Endpoint(PhaseAt(c), Buffered(c), <<"accepted">>, HeardAt(c))
      BY <2>3 DEF Extend
    <3> QED
      BY <1>0, <3>1, <3>2, <3>3, <3>4, <3>5, BufferedSound, EndpointSound
  <2>4. CASE StartSpeech(c) \/ BargeIn(c)
    <3>1. InSequence(c) /\ Fits(c)
      BY <2>4 DEF StartSpeech, BargeIn
    <3>2. Buffered(c) \in Buffers /\ Sound(Buffered(c))
      BY <3>1, BufferedFields, BufferedSound
    <3>3. PICK events \in Seq(Answers) :
            Endpoint("speech", Buffered(c), events, "speaking")
      <4>1. /\ <<"accepted", "speech_started">> \in Seq(Answers)
            /\ <<"accepted", "interrupted", "speech_started">> \in Seq(Answers)
        BY DEF Answers, Events
      <4> QED
        BY <2>4, <4>1 DEF StartSpeech, BargeIn
    <3> QED
      BY <1>0, <3>2, <3>3, EndpointSound
  <2>5. CASE BargeInCallsCancel(c)
    <3>1. InSequence(c) /\ Fits(c) /\ buf' = Buffered(c) /\ phase' = "speech"
      BY <2>5 DEF BargeInCallsCancel
    <3> QED
      BY <3>1, BufferedSound DEF BufferInv, NoPartialYet
  <2> QED
    BY <1>1, <2>1, <2>2, <2>3, <2>4, <2>5 DEF Accept
<1>2. CASE CancelReturns
  <2>1. <<"accepted", "interrupted", "speech_started">> \in Seq(Answers)
    BY DEF Answers, Events
  <2>2. phase \in Phases /\ buf \in Buffers
    BY DEF TypeOK
  <2> QED
    BY <1>0, <1>2, <2>1, <2>2, EndpointSound
    DEF CancelReturns, BufferInv, NoPartialYet
<1>3. CASE CancelRaises \/ StartRefused
  BY <1>3 DEF CancelRaises, StartRefused, BufferInv, NoPartialYet, audioVars
<1>4. ASSUME NEW r \in Responses, NEW callback \in BOOLEAN,
             StartResponse(r, callback)
      PROVE  BufferInv'
  BY <1>4 DEF StartResponse, BufferInv, NoPartialYet
<1>5. ASSUME NEW r \in Responses, NEW g \in Tokens,
             CompleteResponse(r, g) \/ CompletionStale(r, g)
      PROVE  BufferInv'
  BY <1>5 DEF CompleteResponse, CompletionStale, BufferInv, NoPartialYet, audioVars
<1>6. CASE UNCHANGED vars
  BY <1>6 DEF vars, BufferInv, NoPartialYet
<1> QED
  BY <1>1, <1>2, <1>3, <1>4, <1>5, <1>6 DEF Next

\* Whatever is repeated, reordered, refused or raised, the buffer is the
\* unbroken, bounded prefix of the utterance that accept's checks promise.
THEOREM BufferIsSound == Spec => []BufferSound
<1>1. Init => TypeOK /\ Untouched /\ BufferInv
  <2> SUFFICES ASSUME Init PROVE TypeOK /\ Untouched /\ BufferInv
    OBVIOUS
  <2>1. BufferInv
    BY FreshSound DEF Init, BufferInv, NoPartialYet
  <2> QED
    BY <2>1, InitTyped
<1>2. BufferInv => BufferSound
  BY DEF BufferInv, Sound, BufferSound
<1> QED
  BY <1>1, <1>2, TypeStep, BufferStep, PTL DEF Spec

----------------------------------------------------------------------------
(***************************************************************************)
(* The response. What makes ResponseOwned inductive: the generation of an  *)
(* active response is a token, no later token was used, and while a cancel *)
(* callback runs the session is in speech with nothing active, so that the *)
(* callback can neither start nor complete a response.                     *)
(***************************************************************************)

ResponseInv ==
  /\ ResponseOwned
  /\ CancelledOnce
  /\ active # NoResponse => generation \in Tokens
  /\ \A g \in Tokens : g > generation => fate[g] = "unstarted"
  /\ pc = "cancelling" => active = NoResponse /\ phase = "speech"

\* A step that leaves the response alone need only move the phase where the
\* response allows.
LEMMA PhaseMoves ==
  ASSUME ResponseInv, UNCHANGED responseVars,
         pc' = pc \/ pc' = "ready",
         pc' = "cancelling" => phase' = phase,
         active # NoResponse => phase' \in {"responding", "listening"},
         phase' = "responding" => active # NoResponse
  PROVE  ResponseInv'
<1>1. /\ active' = active /\ cancel' = cancel /\ generation' = generation
      /\ fate' = fate /\ cancels' = cancels
  BY DEF responseVars
<1>2. ResponseOwned'
  BY <1>1 DEF ResponseInv, ResponseOwned
<1>3. CancelledOnce'
  BY <1>1 DEF ResponseInv, CancelledOnce
<1> QED
  BY <1>1, <1>2, <1>3 DEF ResponseInv

\* Interrupting the active response: it is cancelled, and nothing is live.
LEMMA InterruptOwned ==
  ASSUME TypeOK, ResponseInv, active # NoResponse, Interrupt,
         \/ cancels' = cancels
         \/ cancels' = [cancels EXCEPT ![generation] = @ + 1],
         phase' # "responding",
         pc' = "cancelling" => phase' = "speech"
  PROVE  ResponseInv'
<1>1. generation \in Tokens /\ fate[generation] = "live"
  BY DEF ResponseInv, ResponseOwned
<1>2. /\ active' = NoResponse /\ ~cancel' /\ generation' = generation + 1
      /\ fate' = [fate EXCEPT ![generation] = "cancelled"]
  BY DEF Interrupt
<1>3. fate \in [Tokens -> Fates] /\ cancels \in [Tokens -> Nat] /\ generation \in Nat
  BY DEF TypeOK
<1>4. cancels[generation] = 0
  BY <1>1, <1>3 DEF ResponseInv, CancelledOnce
<1>5. \A g \in Tokens :
        /\ fate'[g] = (IF g = generation THEN "cancelled" ELSE fate[g])
        /\ cancels'[g] = cancels[g] \/ (g = generation /\ cancels'[g] = 1)
  <2> SUFFICES ASSUME NEW g \in Tokens
               PROVE  /\ fate'[g] = (IF g = generation THEN "cancelled" ELSE fate[g])
                      /\ cancels'[g] = cancels[g] \/ (g = generation /\ cancels'[g] = 1)
    OBVIOUS
  <2>1. fate'[g] = (IF g = generation THEN "cancelled" ELSE fate[g])
    BY <1>2, <1>3
  <2>2. CASE cancels' = cancels
    BY <2>1, <2>2
  <2>3. CASE cancels' = [cancels EXCEPT ![generation] = @ + 1]
    <3>1. \A h \in Tokens :
            cancels'[h] = IF h = generation THEN cancels[generation] + 1 ELSE cancels[h]
      BY <1>3, <2>3
    <3> QED
      BY <1>4, <2>1, <3>1
  <2> QED
    BY <2>1, <2>2, <2>3
<1>6. \A g \in Tokens : fate'[g] # "live"
  BY <1>5 DEF ResponseInv, ResponseOwned
<1>7. ResponseOwned'
  BY <1>2, <1>6 DEF ResponseOwned
<1>8. CancelledOnce'
  BY <1>4, <1>5 DEF ResponseInv, CancelledOnce
<1>9. \A g \in Tokens : g > generation' => fate'[g] = "unstarted"
  <2> SUFFICES ASSUME NEW g \in Tokens, g > generation' PROVE fate'[g] = "unstarted"
    OBVIOUS
  <2>1. g > generation /\ g # generation
    BY <1>2, <1>3 DEF Tokens
  <2> QED
    BY <1>5, <2>1 DEF ResponseInv
<1> QED
  BY <1>2, <1>7, <1>8, <1>9 DEF ResponseInv

\* Every step keeps the session right about who is talking.
LEMMA ResponseStep ==
  TypeOK /\ Untouched /\ ResponseInv /\ [Next]_vars => ResponseInv'
<1> SUFFICES ASSUME TypeOK, Untouched, ResponseInv, [Next]_vars
             PROVE  ResponseInv'
  OBVIOUS
<1>0. /\ heard \in {"quiet", "speaking", "final"} /\ "speech" \in Phases
      /\ phase \in Phases
  BY DEF TypeOK, Phases
<1>1. ASSUME NEW c \in Chunks, Accept(c) PROVE ResponseInv'
  <2>1. CASE Reject(c)
    BY <2>1, PhaseMoves DEF Reject, audioVars, ResponseInv, ResponseOwned
  <2>2. CASE Duplicate(c) \/ OutOfOrder(c) \/ BufferLimit(c)
    <3>1. /\ pc = "ready" /\ pc' = pc /\ phase' = PhaseAt(c)
          /\ UNCHANGED responseVars
      BY <2>2 DEF Duplicate, OutOfOrder, BufferLimit, Refuse
    <3>2. phase' \in {phase, "listening"}
      BY <3>1 DEF PhaseAt
    <3> QED
      BY <3>1, <3>2, PhaseMoves DEF ResponseInv, ResponseOwned
  <2>3. CASE Extend(c)
    <3>1. InSequence(c) /\ pc' = pc /\ pc = "ready" /\ UNCHANGED responseVars
      BY <2>3 DEF Extend
    <3>2. Buffered(c) \in Buffers
      BY <3>1, BufferedFields
    <3>3. PhaseAt(c) \in Phases /\ HeardAt(c) \in {"quiet", "speaking", "final"}
      BY <3>1, LookedAt DEF InSequence
    <3>4. <<"accepted">> \in Seq(Answers)
      BY DEF Answers, Events
    <3>5. Endpoint(PhaseAt(c), Buffered(c), <<"accepted">>, HeardAt(c))
      BY <2>3 DEF Extend
    <3>6. /\ PhaseAt(c) # "speech" => phase' = PhaseAt(c)
          /\ PhaseAt(c) = "speech" => phase' \in {"speech", "finalizing"}
      BY <1>0, <3>2, <3>3, <3>4, <3>5, EndpointEffect
    <3>7. PhaseAt(c) \in {phase, "listening"}
      BY DEF PhaseAt
    <3> QED
      BY <3>1, <3>6, <3>7, PhaseMoves DEF ResponseInv, ResponseOwned
  <2>4. CASE StartSpeech(c) \/ BargeIn(c)
    <3>1. InSequence(c)
      BY <2>4 DEF StartSpeech, BargeIn
    <3>2. Buffered(c) \in Buffers
      BY <3>1, BufferedFields
    <3>3. PICK events \in Seq(Answers) :
            Endpoint("speech", Buffered(c), events, "speaking")
      <4>1. /\ <<"accepted", "speech_started">> \in Seq(Answers)
            /\ <<"accepted", "interrupted", "speech_started">> \in Seq(Answers)
        BY DEF Answers, Events
      <4> QED
        BY <2>4, <4>1 DEF StartSpeech, BargeIn
    <3>4. phase' \in {"speech", "finalizing"}
      BY <1>0, <3>2, <3>3, EndpointEffect
    <3>5. CASE StartSpeech(c)
      BY <3>4, <3>5, PhaseMoves DEF StartSpeech
    <3>6. CASE BargeIn(c)
      BY <3>4, <3>6, InterruptOwned DEF BargeIn
    <3> QED
      BY <2>4, <3>5, <3>6
  <2>5. CASE BargeInCallsCancel(c)
    BY <2>5, InterruptOwned DEF BargeInCallsCancel
  <2> QED
    BY <1>1, <2>1, <2>2, <2>3, <2>4, <2>5 DEF Accept
<1>2. CASE CancelReturns
  <2>1. <<"accepted", "interrupted", "speech_started">> \in Seq(Answers)
    BY DEF Answers, Events
  <2>2. buf \in Buffers
    BY DEF TypeOK
  <2>3. /\ pc = "cancelling" /\ pc' = "ready" /\ UNCHANGED responseVars
        /\ phase = "speech" /\ active = NoResponse
    BY <1>2 DEF CancelReturns, ResponseInv
  <2>4. phase' \in {"speech", "finalizing"}
    BY <1>0, <1>2, <2>1, <2>2, <2>3, EndpointEffect DEF CancelReturns
  <2> QED
    BY <2>3, <2>4, PhaseMoves
<1>3. CASE CancelRaises \/ StartRefused
  BY <1>3, PhaseMoves
  DEF CancelRaises, StartRefused, audioVars, ResponseInv, ResponseOwned
<1>4. ASSUME NEW r \in Responses, NEW callback \in BOOLEAN,
             StartResponse(r, callback)
      PROVE  ResponseInv'
  <2>1. /\ generation < MaximumStarts /\ phase # "speech" /\ pc' = pc
        /\ phase' = "responding" /\ active' = r /\ generation' = generation + 1
        /\ fate' = [Supersede EXCEPT ![generation + 1] = "live"]
        /\ cancels' = cancels
    BY <1>4 DEF StartResponse, MayRespond
  <2>2. /\ fate \in [Tokens -> Fates] /\ generation \in Nat
        /\ cancels \in [Tokens -> Nat]
    BY DEF TypeOK
  <2>3. generation + 1 \in Tokens
    BY <2>1, <2>2 DEF Tokens
  <2>4. \A g \in Tokens :
          fate'[g] = IF g = generation + 1 THEN "live"
                     ELSE IF active # NoResponse /\ g = generation
                          THEN "superseded" ELSE fate[g]
    BY <2>1, <2>2, <2>3 DEF Supersede
  <2>5. fate[generation + 1] = "unstarted"
    BY <2>2, <2>3 DEF ResponseInv
  <2>6. r # NoResponse
    OBVIOUS
  <2>7. \A g \in Tokens : fate'[g] = "live" <=> g = generation'
    BY <2>1, <2>2, <2>4 DEF ResponseInv, ResponseOwned, Tokens
  <2>8. ResponseOwned'
    BY <2>1, <2>6, <2>7 DEF ResponseOwned
  <2>9. CancelledOnce'
    <3> SUFFICES ASSUME NEW g \in Tokens
                 PROVE  cancels[g] <= 1 /\ (cancels[g] = 1 => fate'[g] = "cancelled")
      BY <2>1 DEF CancelledOnce
    <3>1. cancels[g] <= 1 /\ (cancels[g] = 1 => fate[g] = "cancelled")
      BY DEF ResponseInv, CancelledOnce
    <3>2. fate[g] = "cancelled" => g # generation + 1 /\ ~(active # NoResponse /\ g = generation)
      BY <2>5 DEF ResponseInv, ResponseOwned
    <3> QED
      BY <2>4, <3>1, <3>2
  <2>10. \A g \in Tokens : g > generation' => fate'[g] = "unstarted"
    <3> SUFFICES ASSUME NEW g \in Tokens, g > generation' PROVE fate'[g] = "unstarted"
      OBVIOUS
    <3>1. g > generation /\ g # generation /\ g # generation + 1
      BY <2>1, <2>2 DEF Tokens
    <3> QED
      BY <2>4, <3>1 DEF ResponseInv
  <2> QED
    BY <2>1, <2>3, <2>8, <2>9, <2>10 DEF ResponseInv
<1>5. ASSUME NEW r \in Responses, NEW g \in Tokens, CompleteResponse(r, g)
      PROVE  ResponseInv'
  <2>1. /\ g = generation /\ active = r /\ r # NoResponse
        /\ active' = NoResponse /\ ~cancel' /\ phase' = "idle" /\ pc' = pc
        /\ fate' = [fate EXCEPT ![g] = "completed"]
        /\ generation' = generation /\ cancels' = cancels
    BY <1>5 DEF CompleteResponse, Current
  <2>2. fate \in [Tokens -> Fates] /\ cancels \in [Tokens -> Nat]
    BY DEF TypeOK
  <2>3. \A h \in Tokens : fate'[h] = IF h = g THEN "completed" ELSE fate[h]
    BY <2>1, <2>2
  <2>4. fate[g] = "live" /\ pc # "cancelling"
    BY <2>1 DEF ResponseInv, ResponseOwned
  <2>5. ResponseOwned'
    BY <2>1, <2>3 DEF ResponseInv, ResponseOwned
  <2>6. CancelledOnce'
    BY <2>1, <2>3, <2>4 DEF ResponseInv, CancelledOnce
  <2>7. \A h \in Tokens : h > generation => h # g
    BY <2>1 DEF Tokens
  <2> QED
    BY <2>1, <2>3, <2>4, <2>5, <2>6, <2>7 DEF ResponseInv
<1>6. ASSUME NEW r \in Responses, NEW g \in Tokens, CompletionStale(r, g)
      PROVE  ResponseInv'
  BY <1>6, PhaseMoves DEF CompletionStale, audioVars, ResponseInv, ResponseOwned
<1>7. CASE UNCHANGED vars
  BY <1>7, PhaseMoves DEF vars, responseVars, ResponseInv, ResponseOwned
<1> QED
  BY <1>1, <1>2, <1>3, <1>4, <1>5, <1>6, <1>7 DEF Next

\* Initially no response was ever started.
LEMMA InitOwned == Init => ResponseInv
  BY DEF Init, ResponseInv, ResponseOwned, CancelledOnce, Tokens

\* A session is right about who is talking: the live response is the active
\* one of the current generation, and none is live once speech has begun.
THEOREM ResponseIsOwned == Spec => []ResponseOwned
<1>1. ResponseInv => ResponseOwned
  BY DEF ResponseInv
<1> QED
  BY <1>1, InitTyped, InitOwned, TypeStep, ResponseStep, PTL DEF Spec

\* A cancel callback is called at most once, and only for an interrupted
\* response, whatever the callback itself does to the session.
THEOREM CancelsOnce == Spec => []CancelledOnce
<1>1. ResponseInv => CancelledOnce
  BY DEF ResponseInv
<1> QED
  BY <1>1, InitTyped, InitOwned, TypeStep, ResponseStep, PTL DEF Spec

\* The part of a step FateFinal speaks of.
FateKept ==
  \A g \in Tokens : fate[g] \notin {"unstarted", "live"} => fate'[g] = fate[g]

\* No step rewrites what became of a response: only the live one, or one not yet
\* started, is given a fate.
LEMMA FateStep ==
  TypeOK /\ ResponseInv /\ [Next]_vars => FateKept
<1> SUFFICES ASSUME TypeOK, ResponseInv, [Next]_vars, NEW g \in Tokens,
                    fate[g] \notin {"unstarted", "live"}
             PROVE  fate'[g] = fate[g]
  BY DEF FateKept
<1>1. fate \in [Tokens -> Fates] /\ generation \in Nat
  BY DEF TypeOK
<1>2. active # NoResponse => g # generation
  BY DEF ResponseInv, ResponseOwned
<1>3. g # generation + 1
  BY <1>1 DEF ResponseInv, Tokens
<1>4. CASE Interrupt /\ active # NoResponse
  BY <1>1, <1>2, <1>4 DEF Interrupt
<1>5. CASE UNCHANGED fate
  BY <1>5
<1>6. ASSUME NEW r \in Responses, NEW callback \in BOOLEAN,
             StartResponse(r, callback)
      PROVE  fate'[g] = fate[g]
  BY <1>1, <1>2, <1>3, <1>6 DEF StartResponse, Supersede
<1>7. ASSUME NEW r \in Responses, NEW h \in Tokens, CompleteResponse(r, h)
      PROVE  fate'[g] = fate[g]
  <2>1. h = generation /\ active # NoResponse
    BY <1>7 DEF CompleteResponse, Current
  <2> QED
    BY <1>1, <1>2, <1>7, <2>1 DEF CompleteResponse
<1>8. ASSUME NEW c \in Chunks, Accept(c)
      PROVE  UNCHANGED fate \/ (Interrupt /\ active # NoResponse)
  BY <1>8 DEF Accept, Reject, Duplicate, OutOfOrder, BufferLimit, Refuse, Extend,
              StartSpeech, BargeIn, BargeInCallsCancel, responseVars
<1>9. CancelReturns \/ CancelRaises \/ StartRefused \/ UNCHANGED vars => UNCHANGED fate
  BY DEF CancelReturns, CancelRaises, StartRefused, vars, responseVars
<1>10. ASSUME NEW r \in Responses, NEW h \in Tokens, CompletionStale(r, h)
       PROVE  UNCHANGED fate
  BY <1>10 DEF CompletionStale, responseVars
<1> QED
  BY <1>4, <1>5, <1>6, <1>7, <1>8, <1>9, <1>10 DEF Next

\* A response ends once: completions that come late, twice or from inside the
\* cancel callback rewrite nothing.
THEOREM FateIsFinal == Spec => FateFinal
<1>1. TypeOK /\ ResponseInv /\ [Next]_vars => [FateKept]_vars
  BY FateStep
<1>2. FateFinal <=> [][FateKept]_vars
  BY PTL DEF FateFinal, FateKept
<1> QED
  BY <1>1, <1>2, InitTyped, InitOwned, TypeStep, ResponseStep, PTL DEF Spec

----------------------------------------------------------------------------

(***************************************************************************)
(* What the client was told. The invariant holds while the transcriber     *)
(* does not raise: a call that raises tells the client nothing. Only a     *)
(* cancel callback that raises leaves announced speech unannounced.        *)
(***************************************************************************)

HeardInv ==
  /\ phase \in {"finalizing", "responding"} => heard = "final"
  /\ phase = "listening" => heard = "quiet"
  /\ phase = "idle" => heard # "speaking"
  /\ pc = "cancelling" => heard = "quiet"
  /\ phase = "speech" /\ pc = "ready" /\ "cancel" \notin Faults => heard = "speaking"

\* The end of accept, for a transcriber that answers: outside speech the phase
\* stays; in speech the utterance is over and the client hears so, or neither.
LEMMA EndpointSays ==
  ASSUME "transcriber" \notin Faults,
         NEW ph, NEW b, NEW events, NEW told,
         Endpoint(ph, b, events, told)
  PROVE  /\ ph # "speech" => phase' = ph /\ heard' = told
         /\ ph = "speech" =>
              \/ phase' = "finalizing" /\ heard' = "final"
              \/ phase' = "speech" /\ heard' = told
  BY DEF Endpoint, Transcribed

\* A valid chunk finds the client told nothing yet of an utterance that is
\* being listened to, and turns to another utterance never from one being spoken.
LEMMA LookedAtHeard ==
  ASSUME TypeOK, Untouched, HeardInv, NEW c \in Chunks, Valid(c)
  PROVE  /\ PhaseAt(c) = "listening" => HeardAt(c) = "quiet"
         /\ NewUtterance(c) => heard # "speaking"
  BY ValidChunk DEF HeardInv, PhaseAt, HeardAt

\* Every step tells the client what the session decides.
LEMMA HeardStep ==
  ASSUME "transcriber" \notin Faults,
         TypeOK, Untouched, ResponseInv, HeardInv, [Next]_vars
  PROVE  HeardInv'
<1>1. ASSUME NEW c \in Chunks, Accept(c) PROVE HeardInv'
  <2>1. CASE Reject(c)
    BY <2>1 DEF Reject, audioVars, HeardInv
  <2>2. CASE Duplicate(c) \/ OutOfOrder(c) \/ BufferLimit(c)
    BY <2>2 DEF Duplicate, OutOfOrder, BufferLimit, Refuse, PhaseAt, HeardAt, HeardInv
  <2>3. CASE Extend(c)
    <3>1. pc = "ready" /\ pc' = "ready" /\ InSequence(c)
          /\ Endpoint(PhaseAt(c), Buffered(c), <<"accepted">>, HeardAt(c))
      BY <2>3 DEF Extend
    <3>2. /\ PhaseAt(c) # "speech" => phase' = PhaseAt(c) /\ heard' = HeardAt(c)
          /\ PhaseAt(c) = "speech" =>
               \/ phase' = "finalizing" /\ heard' = "final"
               \/ phase' = "speech" /\ heard' = HeardAt(c)
      BY <3>1, EndpointSays
    <3> QED
      BY <3>1, <3>2 DEF PhaseAt, HeardAt, HeardInv
  <2>4. CASE StartSpeech(c) \/ BargeIn(c)
    <3>1. pc' = "ready"
          /\ \E events : Endpoint("speech", Buffered(c), events, "speaking")
      BY <2>4 DEF StartSpeech, BargeIn
    <3>2. \/ phase' = "finalizing" /\ heard' = "final"
          \/ phase' = "speech" /\ heard' = "speaking"
      BY <3>1, EndpointSays
    <3> QED
      BY <3>1, <3>2 DEF HeardInv
  <2>5. CASE BargeInCallsCancel(c)
    BY <2>5, LookedAtHeard DEF BargeInCallsCancel, InSequence, SpeechBegins, HeardInv
  <2> QED
    BY <1>1, <2>1, <2>2, <2>3, <2>4, <2>5 DEF Accept
<1>2. CASE CancelReturns
  <2>1. /\ pc' = "ready" /\ phase = "speech"
        /\ Endpoint("speech", buf,
                    <<"accepted", "interrupted", "speech_started">>, "speaking")
    BY <1>2 DEF CancelReturns, ResponseInv
  <2>2. \/ phase' = "finalizing" /\ heard' = "final"
        \/ phase' = "speech" /\ heard' = "speaking"
    BY <2>1, EndpointSays
  <2> QED
    BY <2>1, <2>2 DEF HeardInv
<1>3. CASE CancelRaises
  BY <1>3 DEF CancelRaises, audioVars, HeardInv, ResponseInv
<1>4. ASSUME NEW r \in Responses, NEW callback \in BOOLEAN,
             StartResponse(r, callback)
      PROVE  HeardInv'
  BY <1>4 DEF StartResponse, MayRespond, HeardInv
<1>5. CASE StartRefused
  BY <1>5 DEF StartRefused, audioVars, HeardInv
<1>6. ASSUME NEW r \in Responses, NEW g \in Tokens, CompleteResponse(r, g)
      PROVE  HeardInv'
  <2>1. active # NoResponse
    BY <1>6 DEF CompleteResponse, Current
  <2> QED
    BY <1>6, <2>1 DEF CompleteResponse, HeardInv, ResponseInv, ResponseOwned
<1>7. ASSUME NEW r \in Responses, NEW g \in Tokens, CompletionStale(r, g)
      PROVE  HeardInv'
  BY <1>7 DEF CompletionStale, audioVars, HeardInv
<1>8. CASE UNCHANGED vars
  BY <1>8 DEF vars, HeardInv
<1> QED
  BY <1>1, <1>2, <1>3, <1>4, <1>5, <1>6, <1>7, <1>8 DEF Next

LEMMA InitHeard == Init => HeardInv
  BY DEF Init, HeardInv

\* When neither the transcriber nor a callback raises, the client was told what
\* the session decided: speech_started before the session takes its speech,
\* finalized before a response can start.
THEOREM ClientIsInformed ==
  ASSUME "transcriber" \notin Faults, "cancel" \notin Faults
  PROVE  Spec => []ClientInformed
<1>1. HeardInv => ClientInformed
  BY DEF HeardInv, ClientInformed
<1>2. TypeOK /\ Untouched /\ ResponseInv /\ HeardInv /\ [Next]_vars => HeardInv'
  BY HeardStep
<1> QED
  BY <1>1, <1>2, InitTyped, InitOwned, InitHeard, TypeStep, ResponseStep, PTL DEF Spec

----------------------------------------------------------------------------
(***************************************************************************)
(* The session implements VoiceTurn. What VoiceTurn sees of the session,   *)
(* as the substitution of Turn defines it:                                 *)
(***************************************************************************)

Running == IF active = NoResponse THEN 0 ELSE generation
Over == {g \in Tokens : fate[g] \in {"completed", "cancelled", "superseded"}}

\* A step that changes neither the response nor its history changes neither here.
LEMMA SameResponse ==
  ASSUME UNCHANGED responseVars
  PROVE  Running' = Running /\ Over' = Over
  BY DEF responseVars, Running, Over

\* A response that is let go, whatever is then said of it, is silenced.
LEMMA Silenced ==
  ASSUME TypeOK, ResponseInv, active # NoResponse, active' = NoResponse,
         NEW x \in {"completed", "cancelled"},
         fate' = [fate EXCEPT ![generation] = x]
  PROVE  Running' = 0 /\ Over' = Over \union ({Running} \ {0}) /\ Running # 0
<1>1. generation \in Tokens /\ generation # 0 /\ fate \in [Tokens -> Fates]
  BY DEF ResponseInv, TypeOK, Tokens
<1>2. \A g \in Tokens : fate'[g] = IF g = generation THEN x ELSE fate[g]
  BY <1>1
<1>3. Over' = Over \union {generation}
  BY <1>1, <1>2 DEF Over
<1> QED
  BY <1>1, <1>3 DEF Running

\* With no response, silence is nothing happening.
LEMMA AlreadySilent ==
  ASSUME active = NoResponse, UNCHANGED responseVars
  PROVE  Running' = 0 /\ Over' = Over \union ({Running} \ {0})
  BY SameResponse DEF Running, responseVars

\* The actions of VoiceTurn, in the session's terms.
LEMMA TurnOpens ==
  ASSUME heard # "speaking", utterance' \in Utterances, utterance' # utterance,
         \/ heard' = "quiet" /\ Running' = Running /\ Over' = Over
         \/ /\ heard' \in {"quiet", "speaking", "final"}
            /\ Running' = 0 /\ Over' = Over \union ({Running} \ {0})
  PROVE  Turn!Open
  BY DEF Turn!Open, Turn!Hear, Turn!Silence, Turn!Ended, Turn!Stages, Running, Over

LEMMA TurnListens ==
  ASSUME heard = "quiet", utterance' = utterance,
         heard' \in {"quiet", "speaking", "final"},
         Running' = 0, Over' = Over \union ({Running} \ {0})
  PROVE  Turn!Listen
  BY DEF Turn!Listen, Turn!Hear, Turn!Silence, Turn!Ended, Turn!Stages, Running, Over

LEMMA TurnEnds ==
  ASSUME heard = "speaking", heard' = "final", utterance' = utterance,
         Running' = Running, Over' = Over
  PROVE  Turn!EndOfSpeech
  BY DEF Turn!EndOfSpeech, Running, Over

LEMMA TurnResponds ==
  ASSUME heard = "final", heard' = heard, utterance' = utterance,
         Running' \in Tokens \ (Over \union ({Running} \ {0})),
         Over' = Over \union ({Running} \ {0})
  PROVE  Turn!Respond
  BY DEF Turn!Respond, Turn!Ended, Running, Over

LEMMA TurnCompletes ==
  ASSUME heard' = heard, utterance' = utterance,
         Running # 0, Running' = 0, Over' = Over \union ({Running} \ {0})
  PROVE  Turn!Complete
  BY DEF Turn!Complete, Turn!Silence, Turn!Ended, Running, Over

LEMMA TurnStutters ==
  ASSUME heard' = heard, utterance' = utterance, Running' = Running, Over' = Over
  PROVE  UNCHANGED Turn!vars
  BY DEF Turn!vars, Running, Over

\* A chunk that begins speech is heard by a silent turn: the response it
\* interrupts, if there was one, is over before the client hears of it.
LEMMA SpeechHeard ==
  ASSUME TypeOK, Untouched, HeardInv, NEW c \in Chunks, Valid(c),
         PhaseAt(c) = "listening", utterance' = c.utterance,
         heard' \in {"quiet", "speaking", "final"},
         Running' = 0, Over' = Over \union ({Running} \ {0})
  PROVE  Turn!Open \/ Turn!Listen
<1>1. c.utterance \in Utterances
  BY ValidChunk
<1>2. CASE NewUtterance(c)
  BY <1>1, <1>2, LookedAtHeard, TurnOpens DEF NewUtterance
<1>3. CASE ~NewUtterance(c)
  <2>1. heard = "quiet" /\ utterance' = utterance
    BY <1>3, LookedAtHeard DEF HeardAt, NewUtterance
  <2> QED
    BY <2>1, TurnListens
<1> QED
  BY <1>2, <1>3

\* A chunk that begins no speech, or is not taken: the turn opens on its
\* utterance, comes to its end, or does not notice.
LEMMA QuietHeard ==
  ASSUME TypeOK, Untouched, ResponseInv, HeardInv, NEW c \in Chunks, Valid(c),
         utterance' = c.utterance, UNCHANGED responseVars,
         heard' = HeardAt(c) \/ (PhaseAt(c) = "speech" /\ heard' = "final")
  PROVE  [Turn!Next]_(Turn!vars)
<1>1. Running' = Running /\ Over' = Over
  BY SameResponse
<1>2. CASE NewUtterance(c)
  <2>1. heard' = "quiet" /\ heard # "speaking"
    BY <1>2, LookedAtHeard DEF HeardAt, PhaseAt
  <2> QED
    BY <1>1, <1>2, <2>1, ValidChunk, TurnOpens DEF NewUtterance, Turn!Next
<1>3. CASE ~NewUtterance(c) /\ heard' = heard
  BY <1>1, <1>3, TurnStutters DEF NewUtterance
<1>4. CASE ~NewUtterance(c) /\ phase = "speech" /\ heard' = "final"
  <2>1. utterance' = utterance /\ active = NoResponse
    BY <1>4 DEF NewUtterance, ResponseInv, ResponseOwned
  <2>2. CASE heard = "quiet"
    BY <1>4, <2>1, <2>2, AlreadySilent, TurnListens DEF Turn!Next
  <2>3. CASE heard = "speaking"
    BY <1>1, <1>4, <2>1, <2>3, TurnEnds DEF Turn!Next
  <2>4. CASE heard = "final"
    BY <1>1, <1>4, <2>1, <2>4, TurnStutters
  <2> QED
    BY <2>2, <2>3, <2>4 DEF TypeOK
<1> QED
  BY <1>2, <1>3, <1>4 DEF HeardAt, PhaseAt

\* Every step of the session is a step of VoiceTurn or does not show there.
LEMMA TurnStep ==
  ASSUME "transcriber" \notin Faults,
         TypeOK, Untouched, ResponseInv, HeardInv, [Next]_vars
  PROVE  [Turn!Next]_(Turn!vars)
<1>1. ASSUME NEW c \in Chunks, Accept(c) PROVE [Turn!Next]_(Turn!vars)
  <2>1. CASE Reject(c)
    BY <2>1, SameResponse, TurnStutters DEF Reject, audioVars
  <2>2. CASE Duplicate(c) \/ OutOfOrder(c) \/ BufferLimit(c)
    BY <2>2, QuietHeard DEF Duplicate, OutOfOrder, BufferLimit, InSequence, Refuse
  <2>3. CASE Extend(c)
    <3>1. /\ Valid(c) /\ utterance' = c.utterance /\ UNCHANGED responseVars
          /\ Endpoint(PhaseAt(c), Buffered(c), <<"accepted">>, HeardAt(c))
      BY <2>3 DEF Extend, InSequence
    <3>2. heard' = HeardAt(c) \/ (PhaseAt(c) = "speech" /\ heard' = "final")
      BY <3>1, EndpointSays
    <3> QED
      BY <3>1, <3>2, QuietHeard
  <2>4. CASE StartSpeech(c) \/ BargeIn(c)
    <3>1. /\ Valid(c) /\ PhaseAt(c) = "listening" /\ utterance' = c.utterance
          /\ \E events : Endpoint("speech", Buffered(c), events, "speaking")
      BY <2>4 DEF StartSpeech, BargeIn, InSequence, SpeechBegins
    <3>2. heard' \in {"speaking", "final"}
      BY <3>1, EndpointSays
    <3>3. Running' = 0 /\ Over' = Over \union ({Running} \ {0})
      <4>1. CASE StartSpeech(c)
        BY <4>1, AlreadySilent DEF StartSpeech
      <4>2. CASE BargeIn(c)
        BY <4>2, Silenced DEF BargeIn, Interrupt
      <4> QED
        BY <2>4, <4>1, <4>2
    <3> QED
      BY <3>1, <3>2, <3>3, SpeechHeard DEF Turn!Next
  <2>5. CASE BargeInCallsCancel(c)
    <3>1. /\ Valid(c) /\ PhaseAt(c) = "listening" /\ utterance' = c.utterance
          /\ heard' = HeardAt(c)
      BY <2>5 DEF BargeInCallsCancel, InSequence, SpeechBegins
    <3>2. heard' = "quiet"
      BY <3>1, LookedAtHeard
    <3>3. Running' = 0 /\ Over' = Over \union ({Running} \ {0})
      BY <2>5, Silenced DEF BargeInCallsCancel, Interrupt
    <3> QED
      BY <3>1, <3>2, <3>3, SpeechHeard DEF Turn!Next
  <2> QED
    BY <1>1, <2>1, <2>2, <2>3, <2>4, <2>5 DEF Accept
<1>2. CASE CancelReturns
  <2>1. /\ heard = "quiet" /\ phase = "speech" /\ active = NoResponse
        /\ utterance' = utterance /\ UNCHANGED responseVars
        /\ Endpoint("speech", buf,
                    <<"accepted", "interrupted", "speech_started">>, "speaking")
    BY <1>2 DEF CancelReturns, ResponseInv, HeardInv
  <2>2. heard' \in {"speaking", "final"}
    BY <2>1, EndpointSays
  <2> QED
    BY <2>1, <2>2, AlreadySilent, TurnListens DEF Turn!Next
<1>3. CASE CancelRaises \/ StartRefused
  BY <1>3, SameResponse, TurnStutters DEF CancelRaises, StartRefused, audioVars
<1>4. ASSUME NEW r \in Responses, NEW callback \in BOOLEAN,
             StartResponse(r, callback)
      PROVE  [Turn!Next]_(Turn!vars)
  <2>1. /\ generation < MaximumStarts /\ phase \in {"finalizing", "responding"}
        /\ active' = r /\ generation' = generation + 1
        /\ fate' = [Supersede EXCEPT ![generation + 1] = "live"]
        /\ heard' = heard /\ utterance' = utterance
    BY <1>4 DEF StartResponse, MayRespond
  <2>2. generation \in Nat /\ fate \in [Tokens -> Fates]
    BY DEF TypeOK
  <2>3. generation + 1 \in Tokens
    BY <2>1, <2>2 DEF Tokens
  <2>4. \A g \in Tokens :
          fate'[g] = IF g = generation + 1 THEN "live"
                     ELSE IF active # NoResponse /\ g = generation
                          THEN "superseded" ELSE fate[g]
    BY <2>1, <2>2, <2>3 DEF Supersede
  <2>5. Running' = generation + 1
    BY <2>1 DEF Running
  <2>6. fate[generation + 1] = "unstarted"
    BY <2>2, <2>3 DEF ResponseInv
  <2>7. active # NoResponse => generation \in Tokens /\ generation # 0
    BY DEF ResponseInv, Tokens
  <2>8. Over' = Over \union ({Running} \ {0})
    <3>1. CASE active = NoResponse
      BY <2>4, <2>6, <3>1 DEF Over, Running
    <3>2. CASE active # NoResponse
      BY <2>2, <2>4, <2>6, <2>7, <3>2 DEF Over, Running
    <3> QED
      BY <3>1, <3>2
  <2>9. generation + 1 \notin Over \union ({Running} \ {0})
    BY <2>2, <2>6 DEF Over, Running
  <2>10. heard = "final"
    BY <2>1 DEF HeardInv
  <2> QED
    BY <2>1, <2>3, <2>5, <2>8, <2>9, <2>10, TurnResponds DEF Turn!Next
<1>5. ASSUME NEW r \in Responses, NEW g \in Tokens, CompleteResponse(r, g)
      PROVE  [Turn!Next]_(Turn!vars)
  <2>1. /\ active # NoResponse /\ active' = NoResponse
        /\ fate' = [fate EXCEPT ![generation] = "completed"]
        /\ heard' = heard /\ utterance' = utterance
    BY <1>5 DEF CompleteResponse, Current
  <2> QED
    BY <2>1, Silenced, TurnCompletes DEF Turn!Next
<1>6. ASSUME NEW r \in Responses, NEW g \in Tokens, CompletionStale(r, g)
      PROVE  [Turn!Next]_(Turn!vars)
  BY <1>6, SameResponse, TurnStutters DEF CompletionStale, audioVars
<1>7. CASE UNCHANGED vars
  BY <1>7, SameResponse, TurnStutters DEF vars, responseVars
<1> QED
  BY <1>1, <1>2, <1>3, <1>4, <1>5, <1>6, <1>7 DEF Next

\* Initially the turn has not begun.
LEMMA TurnInit == Init => Turn!Init
  BY DEF Init, Turn!Init

\* While the transcriber answers, the session implements VoiceTurn, also when
\* cancel callbacks call it or raise: it never answers speech that is not final,
\* is silent before it announces speech, and revives no response.
THEOREM ImplementsTurn ==
  ASSUME "transcriber" \notin Faults
  PROVE  Spec => TurnSpec
<1>1. TypeOK /\ Untouched /\ ResponseInv /\ HeardInv /\ [Next]_vars => HeardInv'
  BY HeardStep
<1>2. TypeOK /\ Untouched /\ ResponseInv /\ HeardInv /\ [Next]_vars
        => [Turn!Next]_(Turn!vars)
  BY TurnStep
<1> QED
  BY <1>1, <1>2, InitTyped, InitOwned, InitHeard, TurnInit, TypeStep, ResponseStep,
     PTL DEF Spec, TurnSpec, Turn!Spec

(***************************************************************************)
(* What VoiceTurn promises follows from VoiceTurn's steps alone, so the    *)
(* session has it because it implements VoiceTurn.                         *)
(***************************************************************************)

\* NeverTalksOver is inductive once 0, which stands for no response, is known
\* not to be among the ended ones.
TurnInv == Turn!NeverTalksOver /\ 0 \notin Over

\* Silencing the response keeps the invariant, whatever stage is announced.
LEMMA SilenceKeeps ==
  ASSUME TurnInv, Turn!Silence
  PROVE  TurnInv'
<1>1. Running' = 0 /\ Over' = Over \union ({Running} \ {0})
  BY DEF Turn!Silence, Turn!Ended, Running, Over
<1> QED
  BY <1>1 DEF TurnInv, Turn!NeverTalksOver, Running, Over

LEMMA HearKeeps ==
  ASSUME TurnInv, Turn!Hear
  PROVE  TurnInv'
<1>1. CASE heard' = "quiet" /\ Running' = Running /\ Over' = Over
  BY <1>1 DEF TurnInv, Turn!NeverTalksOver, Running, Over
<1>2. CASE Turn!Silence
  BY <1>2, SilenceKeeps
<1> QED
  BY <1>1, <1>2 DEF Turn!Hear, Running, Over

\* In a turn, whatever implements it, no response runs while the caller is being
\* heard, and none is at once running and over.
THEOREM TurnNeverTalks == Turn!Spec => []Turn!NeverTalksOver
<1>1. Turn!Init => TurnInv
  BY DEF Turn!Init, TurnInv, Turn!NeverTalksOver, Over
<1>2. TurnInv /\ [Turn!Next]_(Turn!vars) => TurnInv'
  <2> SUFFICES ASSUME TurnInv, [Turn!Next]_(Turn!vars)
               PROVE  TurnInv'
    OBVIOUS
  <2>1. CASE Turn!Open
    BY <2>1, HearKeeps DEF Turn!Open
  <2>2. CASE Turn!Listen
    BY <2>2, HearKeeps DEF Turn!Listen
  <2>3. CASE Turn!EndOfSpeech
    BY <2>3 DEF Turn!EndOfSpeech, TurnInv, Turn!NeverTalksOver, Running, Over
  <2>4. CASE Turn!Respond
    <3>1. /\ Running' \in Tokens \ (Over \union ({Running} \ {0}))
          /\ Over' = Over \union ({Running} \ {0})
          /\ heard' = "final"
      BY <2>4 DEF Turn!Respond, Turn!Ended, Running, Over
    <3> QED
      BY <3>1 DEF TurnInv, Turn!NeverTalksOver, Running, Over
  <2>5. CASE Turn!Complete
    BY <2>5, SilenceKeeps DEF Turn!Complete
  <2>6. CASE UNCHANGED Turn!vars
    BY <2>6 DEF Turn!vars, TurnInv, Turn!NeverTalksOver, Running, Over
  <2> QED
    BY <2>1, <2>2, <2>3, <2>4, <2>5, <2>6 DEF Turn!Next
<1>3. TurnInv => Turn!NeverTalksOver
  BY DEF TurnInv
<1> QED
  BY <1>1, <1>2, <1>3, PTL DEF Turn!Spec

\* While the transcriber answers, no response of the session is active while
\* announced speech goes on, and none is both active and over.
THEOREM NeverTalksOverCaller ==
  ASSUME "transcriber" \notin Faults
  PROVE  Spec => []Turn!NeverTalksOver
BY ImplementsTurn, TurnNeverTalks, PTL DEF TurnSpec

----------------------------------------------------------------------------
(***************************************************************************)
(* Endpoints. EndpointPrompt is inductive by itself, given the rate of a   *)
(* chunk and that a cancel callback runs in speech. It needs callbacks     *)
(* that do not raise: one that does abandons the chunk before its test.    *)
(***************************************************************************)

\* However accept ends, the limits were tested against what is buffered.
LEMMA EndpointTested ==
  ASSUME NEW ph \in Phases, NEW b \in Buffers, NEW events, NEW told,
         Endpoint(ph, b, events, told)
  PROVE  /\ ph # "speech" => phase' = ph
         /\ ph = "speech" => phase' \in {"speech", "finalizing"}
         /\ /\ buf'.rate = b.rate /\ buf'.samples = b.samples
            /\ buf'.speech = b.speech /\ buf'.silence = b.silence
            /\ buf'.next = b.next
         /\ phase' = "speech" => ~UtteranceOver(b)
<1>1. buf' = b \/ buf' = [b EXCEPT !.lastPartial = b.speech]
  BY DEF Endpoint
<1>2. /\ buf'.rate = b.rate /\ buf'.samples = b.samples
      /\ buf'.speech = b.speech /\ buf'.silence = b.silence
      /\ buf'.next = b.next
  BY <1>1 DEF Buffers
<1> QED
  BY <1>2 DEF Endpoint

\* An utterance that goes on is within both limits.
LEMMA NotOver ==
  ASSUME NEW b \in Buffers, ~UtteranceOver(b)
  PROVE  /\ b.samples < MaximumUtterance * b.rate
         /\ b.silence < TrailingSilence * b.rate
<1>1. /\ b.samples \in Nat /\ b.silence \in Nat
      /\ MaximumUtterance * b.rate \in Int /\ TrailingSilence * b.rate \in Int
  BY DEF Buffers
<1> QED
  BY <1>1 DEF UtteranceOver

LEMMA PromptStep ==
  ASSUME "cancel" \notin Faults,
         TypeOK, Untouched, ResponseInv, EndpointPrompt, [Next]_vars
  PROVE  EndpointPrompt'
<1>0. "speech" \in Phases /\ buf \in Buffers /\ phase \in Phases
  BY DEF Phases, TypeOK
<1>1. ASSUME NEW c \in Chunks, Accept(c) PROVE EndpointPrompt'
  <2>1. CASE Reject(c)
    BY <2>1 DEF Reject, audioVars, EndpointPrompt
  <2>2. CASE Duplicate(c) \/ OutOfOrder(c) \/ BufferLimit(c)
    <3>1. Valid(c) /\ phase' = PhaseAt(c) /\ buf' = BufAt(c) /\ pc = "ready"
      BY <2>2 DEF Duplicate, OutOfOrder, BufferLimit, InSequence, Refuse
    <3>2. CASE NewUtterance(c)
      <4>1. c.rate \in Nat \ {0} /\ phase' = "listening" /\ buf' = Fresh(c.rate)
        BY <3>1, <3>2, ValidChunk DEF PhaseAt, BufAt
      <4>2. 0 < MinimumSpeech * c.rate
        BY <4>1
      <4> QED
        BY <4>1, <4>2 DEF Fresh, EndpointPrompt
    <3>3. CASE ~NewUtterance(c)
      BY <3>1, <3>3 DEF PhaseAt, BufAt, EndpointPrompt
    <3> QED
      BY <3>2, <3>3
  <2>3. CASE Extend(c)
    <3>1. /\ InSequence(c) /\ ~SpeechBegins(c)
          /\ Endpoint(PhaseAt(c), Buffered(c), <<"accepted">>, HeardAt(c))
      BY <2>3 DEF Extend
    <3>2. PhaseAt(c) \in Phases /\ Buffered(c) \in Buffers /\ Buffered(c).rate = c.rate
      BY <3>1, BufferedFields, LookedAt DEF InSequence
    <3>3. PhaseAt(c) = "listening" => Buffered(c).speech < MinimumSpeech * Buffered(c).rate
      <4>1. c.rate \in Nat /\ Buffered(c).speech \in Nat
        BY <3>1, <3>2, ValidChunk DEF InSequence, Buffers
      <4> QED
        BY <3>1, <3>2, <4>1 DEF SpeechBegins
    <3>4. phase' = "listening" => PhaseAt(c) = "listening"
      BY <3>1, <3>2, EndpointTested
    <3> QED
      BY <3>1, <3>2, <3>3, <3>4, EndpointTested, NotOver DEF EndpointPrompt
  <2>4. CASE StartSpeech(c) \/ BargeIn(c)
    <3>1. InSequence(c) /\ \E events : Endpoint("speech", Buffered(c), events, "speaking")
      BY <2>4 DEF StartSpeech, BargeIn
    <3>2. Buffered(c) \in Buffers
      BY <3>1, BufferedFields
    <3> QED
      BY <1>0, <3>1, <3>2, EndpointTested, NotOver DEF EndpointPrompt
  <2>5. CASE BargeInCallsCancel(c)
    BY <2>5 DEF BargeInCallsCancel, EndpointPrompt
  <2> QED
    BY <1>1, <2>1, <2>2, <2>3, <2>4, <2>5 DEF Accept
<1>2. CASE CancelReturns
  <2>1. /\ phase = "speech"
        /\ Endpoint(phase, buf,
                    <<"accepted", "interrupted", "speech_started">>, "speaking")
    BY <1>2 DEF CancelReturns, ResponseInv
  <2> QED
    BY <1>0, <2>1, EndpointTested, NotOver DEF EndpointPrompt
<1>3. CASE CancelRaises \/ StartRefused
  BY <1>3 DEF CancelRaises, StartRefused, audioVars, EndpointPrompt
<1>4. ASSUME NEW r \in Responses, NEW callback \in BOOLEAN,
             StartResponse(r, callback)
      PROVE  EndpointPrompt'
  BY <1>4 DEF StartResponse, EndpointPrompt
<1>5. ASSUME NEW r \in Responses, NEW g \in Tokens,
             CompleteResponse(r, g) \/ CompletionStale(r, g)
      PROVE  EndpointPrompt'
  BY <1>5 DEF CompleteResponse, CompletionStale, audioVars, EndpointPrompt
<1>6. CASE UNCHANGED vars
  BY <1>6 DEF vars, EndpointPrompt
<1> QED
  BY <1>1, <1>2, <1>3, <1>4, <1>5, <1>6 DEF Next

\* When no callback raises, no utterance outlives a limit by even one call: what
\* is still listened to has too little speech, what is still spoken is within
\* both limits. The transcriber may raise.
THEOREM EndpointIsPrompt ==
  ASSUME "cancel" \notin Faults
  PROVE  Spec => []EndpointPrompt
<1>1. Init => EndpointPrompt
  BY DEF Init, EndpointPrompt
<1>2. TypeOK /\ Untouched /\ ResponseInv /\ EndpointPrompt /\ [Next]_vars
        => EndpointPrompt'
  BY PromptStep
<1> QED
  BY <1>1, <1>2, InitTyped, InitOwned, TypeStep, ResponseStep, PTL DEF Spec

----------------------------------------------------------------------------
(***************************************************************************)
(* Audio is taken once.                                                    *)
(***************************************************************************)

\* The part of a step AudioOnce speaks of.
AudioKept ==
  utterance' = utterance =>
    /\ buf'.samples >= buf.samples
    /\ buf'.samples > buf.samples <=> buf'.next = buf.next + 1
    /\ buf'.samples = buf.samples <=> buf'.next = buf.next

\* Of a buffer, keeping its samples and sequence or taking a chunk of at least
\* one sample is all a step does.
LEMMA OneChunk ==
  ASSUME TypeOK,
         \/ buf'.samples = buf.samples /\ buf'.next = buf.next
         \/ \E n \in Nat \ {0} :
              buf'.samples = buf.samples + n /\ buf'.next = buf.next + 1
  PROVE  AudioKept
<1>1. buf.samples \in Nat /\ buf.next \in Nat
  BY DEF TypeOK, Buffers
<1> QED
  BY <1>1 DEF AudioKept

LEMMA AudioStep ==
  TypeOK /\ Untouched /\ [Next]_vars => AudioKept
<1> SUFFICES ASSUME TypeOK, Untouched, [Next]_vars, utterance' = utterance
             PROVE  AudioKept
  BY DEF AudioKept
<1>0. "speech" \in Phases /\ buf \in Buffers /\ phase \in Phases
  BY DEF Phases, TypeOK
<1>1. ASSUME NEW c \in Chunks, Accept(c) PROVE AudioKept
  <2>1. CASE Reject(c)
    BY <2>1, OneChunk DEF Reject, audioVars
  <2>2. CASE Duplicate(c) \/ OutOfOrder(c) \/ BufferLimit(c)
    <3>1. buf' = buf
      BY <2>2 DEF Duplicate, OutOfOrder, BufferLimit, Refuse, BufAt, NewUtterance
    <3> QED
      BY <3>1, OneChunk
  <2>3. CASE Extend(c) \/ StartSpeech(c) \/ BargeIn(c) \/ BargeInCallsCancel(c)
    <3>1. InSequence(c) /\ utterance' = c.utterance
      BY <2>3 DEF Extend, StartSpeech, BargeIn, BargeInCallsCancel
    <3>2. PhaseAt(c) \in Phases /\ Buffered(c) \in Buffers
      BY <3>1, BufferedFields, LookedAt DEF InSequence
    <3>3. \/ buf' = Buffered(c)
          \/ \E ph \in Phases : \E events, told : Endpoint(ph, Buffered(c), events, told)
      BY <1>0, <2>3, <3>2 DEF Extend, StartSpeech, BargeIn, BargeInCallsCancel
    <3>4. buf'.samples = Buffered(c).samples /\ buf'.next = Buffered(c).next
      BY <3>2, <3>3, EndpointTested
    <3>5. BufAt(c) = buf
      BY <3>1 DEF BufAt, NewUtterance
    <3>6. c.length \in Nat \ {0}
      BY <3>1, ValidChunk DEF InSequence
    <3>7. buf'.samples = buf.samples + c.length /\ buf'.next = buf.next + 1
      BY <3>1, <3>4, <3>5, BufferedFields
    <3> QED
      BY <3>6, <3>7, OneChunk
  <2> QED
    BY <1>1, <2>1, <2>2, <2>3 DEF Accept
<1>2. CASE CancelReturns
  BY <1>0, <1>2, EndpointTested, OneChunk DEF CancelReturns
<1>3. CASE CancelRaises \/ StartRefused
  BY <1>3, OneChunk DEF CancelRaises, StartRefused, audioVars
<1>4. ASSUME NEW r \in Responses, NEW callback \in BOOLEAN,
             StartResponse(r, callback)
      PROVE  AudioKept
  BY <1>4, OneChunk DEF StartResponse
<1>5. ASSUME NEW r \in Responses, NEW g \in Tokens,
             CompleteResponse(r, g) \/ CompletionStale(r, g)
      PROVE  AudioKept
  BY <1>5, OneChunk DEF CompleteResponse, CompletionStale, audioVars
<1>6. CASE UNCHANGED vars
  BY <1>6, OneChunk DEF vars
<1> QED
  BY <1>1, <1>2, <1>3, <1>4, <1>5, <1>6 DEF Next

\* Within an utterance, audio enters the buffer exactly when the sequence moves
\* on by one, however chunks are repeated and whatever raises.
THEOREM AudioIsTakenOnce == Spec => AudioOnce
<1>1. TypeOK /\ Untouched /\ [Next]_vars => [AudioKept]_vars
  BY AudioStep
<1>2. AudioOnce <=> [][AudioKept]_vars
  BY PTL DEF AudioOnce, AudioKept
<1> QED
  BY <1>1, <1>2, InitTyped, TypeStep, PTL DEF Spec
================================================================================
