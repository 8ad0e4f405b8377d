------------------------------- MODULE VoiceTurn -------------------------------
(***************************************************************************)
(* What a streaming voice session promises its caller, with no audio,      *)
(* sequence number or buffer in sight: an utterance is quiet, then being   *)
(* spoken, then final; the assistant responds only to a final utterance    *)
(* and is silent before the caller's next speech is announced; and a       *)
(* response that is over never comes back.                                 *)
(*                                                                         *)
(* StreamingSession implements this (its TurnSpec).                        *)
(***************************************************************************)
EXTENDS Naturals

CONSTANTS
  Utterances,    \* the utterance identifiers
  NoUtterance,   \* no utterance yet
  Tokens         \* one token for each response that is ever started

VARIABLES
  utterance,     \* the utterance the turn is about
  stage,         \* how far the caller was told that utterance has come
  running,       \* the token of the response being given, or 0
  over           \* the tokens of the responses that have ended

vars == <<utterance, stage, running, over>>

Stages == {"quiet", "speaking", "final"}

Init ==
  /\ utterance = NoUtterance
  /\ stage = "quiet"
  /\ running = 0
  /\ over = {}

----------------------------------------------------------------------------
Ended == over \union ({running} \ {0})

Silence == running' = 0 /\ over' = Ended

\* Listening either leaves the response alone or silences it; announcing
\* speech silences it. One long chunk can announce speech and its end.
Hear ==
  \/ stage' = "quiet" /\ UNCHANGED <<running, over>>
  \/ stage' \in Stages /\ Silence

\* The caller turns to another utterance: never away from one being spoken.
Open ==
  /\ stage # "speaking"
  /\ utterance' \in Utterances \ {utterance}
  /\ Hear

Listen ==
  /\ stage = "quiet"
  /\ UNCHANGED utterance
  /\ Hear

EndOfSpeech ==
  /\ stage = "speaking"
  /\ stage' = "final"
  /\ UNCHANGED <<utterance, running, over>>

\* Only a final utterance is answered; a newer response supersedes an older.
Respond ==
  /\ stage = "final"
  /\ running' \in Tokens \ Ended
  /\ over' = Ended
  /\ UNCHANGED <<utterance, stage>>

Complete ==
  /\ running # 0
  /\ Silence
  /\ UNCHANGED <<utterance, stage>>

Next == Open \/ Listen \/ EndOfSpeech \/ Respond \/ Complete

Spec == Init /\ [][Next]_vars

----------------------------------------------------------------------------
\* Every variable has its type.
TypeOK ==
  /\ utterance \in Utterances \union {NoUtterance}
  /\ stage \in Stages
  /\ running \in Tokens \union {0}
  /\ over \subseteq Tokens

\* The assistant never talks while the caller is being heard, and no response
\* is at once running and over.
NeverTalksOver ==
  /\ stage = "speaking" => running = 0
  /\ running \notin over
================================================================================
