--------------------------- MODULE StreamingSession ---------------------------
(***************************************************************************)
(* One StreamingSession (streaming/session.py): the phase of the           *)
(* conversation, the utterance being buffered, and the response that the   *)
(* caller's speech may interrupt.                                          *)
(*                                                                         *)
(* A session runs on the event loop, so one call to it is one step, except *)
(* that accept hands control to code the session does not own: the cancel  *)
(* callback of the response it interrupts. That callback may call the      *)
(* session again before it returns, so accept is cut there (pc). The       *)
(* transcriber is called last in accept and is a choice of outcome.        *)
(*                                                                         *)
(* Audio is counted in samples and a rate is in samples per millisecond,   *)
(* so that `duration_ms(n) >= x` is `n >= x * rate`. What a chunk sounds   *)
(* like is its flag `voiced` (the RMS test). Timestamps and the metrics    *)
(* hooks, which no decision reads, are left out.                           *)
(***************************************************************************)
EXTENDS Integers, Sequences

CONSTANTS
  SessionId,        \* the session's own identifier
  Utterances,       \* utterance identifiers
  NoUtterance,      \* None, and the empty identifier
  Responses,        \* response identifiers
  NoResponse,       \* None
  Chunks,           \* the chunks clients may send
  MinimumSpeech, TrailingSilence, MaximumUtterance, MaximumBuffer,
  PartialInterval,  \* StreamingConfig, in milliseconds
  MaximumStarts,    \* bound on the generation: limits start_response
  Faults            \* which foreign code may raise: "transcriber", "cancel"

Chunk ==
  [session: STRING, utterance: Utterances \union {NoUtterance},
   sequence: Int, rate: Int, length: Nat, voiced: BOOLEAN]

ASSUME IdAssumption ==
  /\ SessionId \in STRING
  /\ NoUtterance \notin Utterances
  /\ NoResponse \notin Responses
ASSUME ChunkAssumption == Chunks \subseteq Chunk
ASSUME ConfigAssumption ==
  /\ MinimumSpeech \in Nat \ {0}
  /\ TrailingSilence \in Nat \ {0}
  /\ MaximumUtterance \in Nat \ {0}
  /\ MaximumBuffer \in Nat
  /\ PartialInterval \in Nat \ {0}
ASSUME BoundAssumption == MaximumStarts \in Nat
ASSUME FaultAssumption == Faults \subseteq {"transcriber", "cancel"}

VARIABLES
  pc,          \* "ready", or "cancelling" inside the cancel callback
  phase,       \* SessionPhase
  utterance,   \* utterance_id
  buf,         \* the utterance: rate, sequence numbers, sample counts
  active,      \* active_response_id
  cancel,      \* whether _cancel_active_response is a callback
  generation,  \* _response_generation
  reply,       \* what the latest call returned or raised
  \* History, for the properties:
  heard,       \* what the client was told of the utterance
  fate,        \* what became of the response started as generation g
  cancels      \* how often the cancel callback of that response was called

audioVars == <<phase, utterance, buf, heard>>
responseVars == <<active, cancel, generation, fate, cancels>>
vars == <<pc, phase, utterance, buf, active, cancel, generation, reply,
          heard, fate, cancels>>

Phases == {"idle", "listening", "speech", "finalizing", "responding"}
Fates == {"unstarted", "live", "completed", "cancelled", "superseded"}
Tokens == 1..MaximumStarts

\* What a call answers with: event types, error codes, and the outcomes of the
\* response calls. accept returns a sequence of them.
Events ==
  {"accepted", "duplicate", "interrupted", "speech_started", "partial", "finalized"}
Errors ==
  {"session_mismatch", "invalid_chunk", "sample_rate_changed",
   "utterance_mismatch", "invalid_transition", "out_of_order", "buffer_limit"}
Answers == Events \union Errors \union {"raised", "started", "completed", "stale"}

\* Mutant of Fresh: no partial yet is marked -1.
FreshMarked(rate) ==
  [rate |-> rate, seen |-> {}, next |-> 0, samples |-> 0,
   speech |-> 0, silence |-> 0, lastPartial |-> -1]

Fresh(rate) ==
  [rate |-> rate, seen |-> {}, next |-> 0, samples |-> 0,
   speech |-> 0, silence |-> 0, lastPartial |-> 0]

Init ==
  /\ pc = "ready"
  /\ phase = "idle"
  /\ utterance = NoUtterance
  /\ buf = Fresh(0)
  /\ active = NoResponse
  /\ cancel = FALSE
  /\ generation = 0
  /\ reply = <<>>
  /\ heard = "quiet"
  /\ fate = [g \in Tokens |-> "unstarted"]
  /\ cancels = [g \in Tokens |-> 0]

----------------------------------------------------------------------------
(***************************************************************************)
(* accept: which chunks are looked at, and what they are looked at with.   *)
(***************************************************************************)

OtherUtterance(c) == utterance \notin {NoUtterance, c.utterance}

\* _validate: the first test that fails names the error.
ValidationError(c) ==
  IF c.session # SessionId THEN "session_mismatch"
  ELSE IF c.utterance = NoUtterance \/ c.sequence < 0 \/ c.rate <= 0
          \/ c.length = 0 THEN "invalid_chunk"
  ELSE IF utterance = c.utterance /\ buf.rate # c.rate
       THEN "sample_rate_changed"
  ELSE IF OtherUtterance(c) /\ c.sequence # 0 THEN "utterance_mismatch"
  ELSE IF OtherUtterance(c) /\ phase \notin {"idle", "responding"}
       THEN "invalid_transition"
  ELSE "none"

Valid(c) == ValidationError(c) = "none"

\* The utterance after _reset_utterance, when the chunk names another one.
NewUtterance(c) == utterance # c.utterance
\* Mutant of BufAt: chunk zero always restarts the utterance.
BufAtRestart(c) ==
  IF NewUtterance(c) \/ c.sequence = 0 THEN Fresh(c.rate) ELSE buf
BufAt(c) == IF NewUtterance(c) THEN Fresh(c.rate) ELSE buf
PhaseAt(c) == IF NewUtterance(c) THEN "listening" ELSE phase
HeardAt(c) == IF NewUtterance(c) THEN "quiet" ELSE heard

\* A valid chunk whose audio is not taken: the reset stays.
Refuse(c, code) ==
  /\ utterance' = c.utterance
  /\ buf' = BufAt(c)
  /\ phase' = PhaseAt(c)
  /\ heard' = HeardAt(c)
  /\ reply' = <<code>>
  /\ UNCHANGED <<pc, responseVars>>

Reject(c) ==
  /\ pc = "ready"
  /\ ~Valid(c)
  /\ reply' = <<ValidationError(c)>>
  /\ UNCHANGED <<pc, audioVars, responseVars>>

Duplicate(c) ==
  /\ pc = "ready"
  /\ Valid(c)
  /\ c.sequence \in BufAt(c).seen
  /\ Refuse(c, "duplicate")

OutOfOrder(c) ==
  /\ pc = "ready"
  /\ Valid(c)
  /\ c.sequence \notin BufAt(c).seen
  /\ c.sequence # BufAt(c).next
  /\ Refuse(c, "out_of_order")

InSequence(c) ==
  Valid(c) /\ c.sequence \notin BufAt(c).seen /\ c.sequence = BufAt(c).next

\* Mutant of Fits: the limit is tested before the chunk is counted.
FitsBefore(c) == BufAt(c).samples <= MaximumBuffer * c.rate
Fits(c) == BufAt(c).samples + c.length <= MaximumBuffer * c.rate

BufferLimit(c) ==
  /\ pc = "ready"
  /\ InSequence(c)
  /\ ~Fits(c)
  /\ Refuse(c, "buffer_limit")

----------------------------------------------------------------------------
(***************************************************************************)
(* accept: an accepted chunk.                                              *)
(***************************************************************************)

\* The buffer with the chunk in it and its samples counted.
Buffered(c) ==
  LET b == BufAt(c)
  IN [rate |-> b.rate,
      seen |-> b.seen \union {c.sequence},
      next |-> b.next + 1,
      samples |-> b.samples + c.length,
      speech |-> IF c.voiced THEN b.speech + c.length
                 ELSE IF PhaseAt(c) = "listening" THEN 0 ELSE b.speech,
      silence |-> IF c.voiced THEN 0
                  ELSE IF PhaseAt(c) = "speech" THEN b.silence + c.length
                  ELSE b.silence,
      lastPartial |-> b.lastPartial]

\* Mutant of SpeechBegins: the phase is not looked at.
SpeechBeginsInAnyPhase(c) == Buffered(c).speech >= MinimumSpeech * c.rate

SpeechBegins(c) ==
  PhaseAt(c) = "listening" /\ Buffered(c).speech >= MinimumSpeech * c.rate

\* Mutants of UtteranceOver: limits reached only when passed; silence alone.
UtteranceOverLate(b) ==
  \/ b.samples > MaximumUtterance * b.rate
  \/ b.silence > TrailingSilence * b.rate
UtteranceOverBySilence(b) == b.silence >= TrailingSilence * b.rate

UtteranceOver(b) ==
  \/ b.samples >= MaximumUtterance * b.rate
  \/ b.silence >= TrailingSilence * b.rate

PartialDue(b) == b.speech - b.lastPartial >= PartialInterval * b.rate

\* The transcriber answers, and accept returns its events; or it raises, and
\* the events of the whole call are lost.
Transcribed(events, told) ==
  \/ reply' = events /\ heard' = told
  \/ /\ "transcriber" \in Faults
     /\ reply' = <<"raised">>
     /\ UNCHANGED heard

\* The end of accept: finalize, emit a partial, or just return. `ph` and `b`
\* are the phase and the buffer by then, `events` and `told` what was said.
Endpoint(ph, b, events, told) ==
  \/ /\ ph # "speech"
     /\ phase' = ph
     /\ buf' = b
     /\ reply' = events
     /\ heard' = told
  \/ /\ ph = "speech"
     /\ UtteranceOver(b)
     /\ phase' = "finalizing"
     /\ buf' = b
     /\ Transcribed(Append(events, "finalized"), "final")
  \/ /\ ph = "speech"
     /\ ~UtteranceOver(b)
     /\ PartialDue(b)
     /\ phase' = ph
     /\ buf' = [b EXCEPT !.lastPartial = b.speech]
     /\ Transcribed(Append(events, "partial"), told)
  \/ /\ ph = "speech"
     /\ ~UtteranceOver(b)
     /\ ~PartialDue(b)
     /\ phase' = ph
     /\ buf' = b
     /\ reply' = events
     /\ heard' = told

\* A chunk that begins no speech.
Extend(c) ==
  /\ pc = "ready"
  /\ InSequence(c) /\ Fits(c)
  /\ ~SpeechBegins(c)
  /\ utterance' = c.utterance
  /\ Endpoint(PhaseAt(c), Buffered(c), <<"accepted">>, HeardAt(c))
  /\ UNCHANGED <<pc, responseVars>>

\* Mutant of Interrupt: the response is let go only after the callback, which
\* a callback that raises, or calls the session, finds undone.
InterruptKeepsResponse ==
  /\ fate' = [fate EXCEPT ![generation] = "cancelled"]
  /\ UNCHANGED <<active, cancel, generation>>

\* _interrupt_response up to the callback: the response is let go first.
Interrupt ==
  /\ active' = NoResponse
  /\ cancel' = FALSE
  /\ generation' = generation + 1
  /\ fate' = [fate EXCEPT ![generation] = "cancelled"]

StartSpeech(c) ==
  /\ pc = "ready"
  /\ InSequence(c) /\ Fits(c)
  /\ SpeechBegins(c)
  /\ active = NoResponse
  /\ utterance' = c.utterance
  /\ Endpoint("speech", Buffered(c), <<"accepted", "speech_started">>, "speaking")
  /\ UNCHANGED <<pc, responseVars>>

\* The interrupted response has no callback: nothing foreign runs.
BargeIn(c) ==
  /\ pc = "ready"
  /\ InSequence(c) /\ Fits(c)
  /\ SpeechBegins(c)
  /\ active # NoResponse
  /\ ~cancel
  /\ utterance' = c.utterance
  /\ Interrupt
  /\ Endpoint("speech", Buffered(c),
              <<"accepted", "interrupted", "speech_started">>, "speaking")
  /\ UNCHANGED <<pc, cancels>>

BargeInCallsCancel(c) ==
  /\ pc = "ready"
  /\ InSequence(c) /\ Fits(c)
  /\ SpeechBegins(c)
  /\ active # NoResponse
  /\ cancel
  /\ pc' = "cancelling"
  /\ phase' = "speech"
  /\ utterance' = c.utterance
  /\ buf' = Buffered(c)
  /\ heard' = HeardAt(c)
  /\ Interrupt
  /\ cancels' = [cancels EXCEPT ![generation] = @ + 1]
  /\ UNCHANGED reply

CancelReturns ==
  /\ pc = "cancelling"
  /\ pc' = "ready"
  /\ Endpoint(phase, buf,
              <<"accepted", "interrupted", "speech_started">>, "speaking")
  /\ UNCHANGED <<utterance, responseVars>>

CancelRaises ==
  /\ pc = "cancelling"
  /\ "cancel" \in Faults
  /\ pc' = "ready"
  /\ reply' = <<"raised">>
  /\ UNCHANGED <<audioVars, responseVars>>

----------------------------------------------------------------------------
(***************************************************************************)
(* The response's side: start_response and complete_response. The cancel   *)
(* callback may make these calls too.                                      *)
(***************************************************************************)

\* Mutant of MayRespond: a response may start over the caller's speech.
MayRespondToSpeech == phase \in {"speech", "finalizing", "responding"}

MayRespond == phase \in {"finalizing", "responding"}

Supersede ==
  IF active = NoResponse THEN fate
  ELSE [fate EXCEPT ![generation] = "superseded"]

StartResponse(r, callback) ==
  /\ generation < MaximumStarts
  /\ MayRespond
  /\ phase' = "responding"
  /\ active' = r
  /\ cancel' = callback
  /\ generation' = generation + 1
  /\ fate' = [Supersede EXCEPT ![generation + 1] = "live"]
  /\ reply' = <<"started">>
  /\ UNCHANGED <<pc, utterance, buf, heard, cancels>>

\* The phase does not allow a response, or it is given no name.
StartRefused ==
  /\ \E named \in BOOLEAN : ~(MayRespond /\ named)
  /\ reply' = <<"raised">>
  /\ UNCHANGED <<pc, audioVars, responseVars>>

\* Mutant of Current: the generation is not compared.
CurrentById(r, g) == r = active
Current(r, g) == r = active /\ g = generation

CompleteResponse(r, g) ==
  /\ Current(r, g)
  /\ active' = NoResponse
  /\ cancel' = FALSE
  /\ phase' = "idle"
  /\ fate' = [fate EXCEPT ![g] = "completed"]
  /\ reply' = <<"completed">>
  /\ UNCHANGED <<pc, utterance, buf, generation, heard, cancels>>

CompletionStale(r, g) ==
  /\ ~Current(r, g)
  /\ reply' = <<"stale">>
  /\ UNCHANGED <<pc, audioVars, responseVars>>

----------------------------------------------------------------------------
Accept(c) ==
  \/ Reject(c)
  \/ Duplicate(c)
  \/ OutOfOrder(c)
  \/ BufferLimit(c)
  \/ Extend(c)
  \/ StartSpeech(c)
  \/ BargeIn(c)
  \/ BargeInCallsCancel(c)

Next ==
  \/ \E c \in Chunks : Accept(c)
  \/ CancelReturns
  \/ CancelRaises
  \/ \E r \in Responses, callback \in BOOLEAN : StartResponse(r, callback)
  \/ StartRefused
  \/ \E r \in Responses, g \in Tokens :
       CompleteResponse(r, g) \/ CompletionStale(r, g)

Spec == Init /\ [][Next]_vars

(***************************************************************************)
(* Fairness. A client that streams keeps sending the next chunk of the     *)
(* current utterance, of a length that fits, and a cancel callback, which  *)
(* runs on the event loop, comes to an end.                                *)
(***************************************************************************)

Stream ==
  \E c \in Chunks :
    c.utterance = utterance /\ InSequence(c) /\ Fits(c) /\ Accept(c)

FairSpec == Spec /\ WF_vars(Stream) /\ WF_vars(CancelReturns)

----------------------------------------------------------------------------
(***************************************************************************)
(* Properties.                                                             *)
(***************************************************************************)

Buffers ==
  [rate: Nat, seen: SUBSET Nat, next: Nat, samples: Nat,
   speech: Nat, silence: Nat, lastPartial: Nat]

\* Every variable has its type.
TypeOK ==
  /\ pc \in {"ready", "cancelling"}
  /\ phase \in Phases
  /\ utterance \in Utterances \union {NoUtterance}
  /\ buf \in Buffers
  /\ active \in Responses \union {NoResponse}
  /\ cancel \in BOOLEAN
  /\ generation \in Nat
  /\ reply \in Seq(Answers)
  /\ heard \in {"quiet", "speaking", "final"}
  /\ fate \in [Tokens -> Fates]
  /\ cancels \in [Tokens -> Nat]

\* The session's idea of who is talking is right: a response is live exactly
\* when it is the active one and holds the current generation (so a late
\* completion of any other is stale), and none is active once the caller's
\* speech has begun, while it is finalized, or when the session is idle.
ResponseOwned ==
  /\ \A g \in Tokens :
       fate[g] = "live" <=> active # NoResponse /\ g = generation
  /\ active # NoResponse => phase \in {"responding", "listening"}
  /\ phase = "responding" => active # NoResponse
  /\ cancel => active # NoResponse

\* Barge-in reaches a response's cancel callback at most once, and only that of
\* a response that was interrupted: never one that had completed.
CancelledOnce ==
  \A g \in Tokens :
    cancels[g] <= 1 /\ (cancels[g] = 1 => fate[g] = "cancelled")

\* However chunks are repeated, reordered or refused, the buffer holds the
\* unbroken prefix of the utterance, within the configured memory, and the
\* speech and silence counted in it are parts of it.
BufferSound ==
  /\ buf.seen = 0..(buf.next - 1)
  /\ buf.samples <= MaximumBuffer * buf.rate
  /\ buf.speech + buf.silence <= buf.samples
  /\ buf.lastPartial <= buf.speech

\* Between calls, an utterance being listened to has too little speech to be
\* one, and one being spoken has reached neither limit that ends it.
EndpointPrompt ==
  pc = "ready" =>
    /\ phase = "listening" => buf.speech < MinimumSpeech * buf.rate
    /\ phase = "speech" =>
         /\ buf.samples < MaximumUtterance * buf.rate
         /\ buf.silence < TrailingSilence * buf.rate

\* The client was told what the session decided: speech_started before the
\* session leaves listening, finalized before any response can start.
ClientInformed ==
  /\ phase = "speech" /\ pc = "ready" => heard = "speaking"
  /\ phase \in {"finalizing", "responding"} => heard = "final"
  /\ phase = "listening" => heard = "quiet"

\* A response ends once: what became of it is never rewritten, whatever
\* completions arrive late or twice, and from inside the cancel callback too.
FateFinal ==
  [][\A g \in Tokens :
       fate[g] \notin {"unstarted", "live"} => fate'[g] = fate[g]]_vars

\* Audio enters the buffer once per sequence number: within an utterance the
\* buffer only grows, and grows only with the sequence.
AudioOnce ==
  [][utterance' = utterance =>
       /\ buf'.samples >= buf.samples
       /\ buf'.samples > buf.samples <=> buf'.next = buf.next + 1
       /\ buf'.samples = buf.samples <=> buf'.next = buf.next]_vars

\* While the client streams, announced speech is eventually final: trailing
\* silence or the maximum duration ends it.
SpeechEnds == heard = "speaking" ~> heard = "final"

(***************************************************************************)
(* The session implements VoiceTurn.                                       *)
(***************************************************************************)

Turn == INSTANCE VoiceTurn WITH
  stage <- heard,
  running <- IF active = NoResponse THEN 0 ELSE generation,
  over <- {g \in Tokens : fate[g] \in {"completed", "cancelled", "superseded"}}

\* Seen through what the client is told and which response is live, every step
\* of the session is a step VoiceTurn allows.
TurnSpec == Turn!Spec

(***************************************************************************)
(* What the documentation says of a session and the code does not do.      *)
(***************************************************************************)

\* README: an endpoint detector "requires 60 ms of speech": speech of that
\* length in an utterance has been announced.
SpeechDetected ==
  pc = "ready" /\ utterance # NoUtterance
    /\ buf.speech >= MinimumSpeech * buf.rate
  => heard # "quiet"

\* README: "forcibly finalizes at 30 seconds": an utterance still open is
\* shorter than that.
OpenUtteranceShort ==
  pc = "ready" /\ phase \in {"listening", "speech"} =>
    buf.samples < MaximumUtterance * buf.rate
================================================================================
