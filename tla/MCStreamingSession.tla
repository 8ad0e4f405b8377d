-------------------------- MODULE MCStreamingSession --------------------------
(***************************************************************************)
(* Small instances of StreamingSession for TLC: the chunks clients send.   *)
(***************************************************************************)
EXTENDS StreamingSession

CONSTANTS
  Rates,        \* samples per millisecond
  Lengths,      \* chunk lengths, in samples
  LastSequence  \* bound on the sequence numbers

\* The chunks a client can send this session, well formed or not.
SomeChunks ==
  [session: {SessionId}, utterance: Utterances, sequence: 0..LastSequence,
   rate: Rates, length: Lengths, voiced: BOOLEAN]

\* One chunk of each way to be malformed.
BadChunks ==
  LET u == CHOOSE u \in Utterances : TRUE
      r == CHOOSE r \in Rates : TRUE
      good == [session |-> SessionId, utterance |-> u, sequence |-> 0,
               rate |-> r, length |-> 1, voiced |-> TRUE]
  IN {[good EXCEPT !.session = "another"],
      [good EXCEPT !.utterance = NoUtterance],
      [good EXCEPT !.sequence = -1],
      [good EXCEPT !.rate = 0],
      [good EXCEPT !.length = 0]}

MCChunks == SomeChunks \union BadChunks
================================================================================
