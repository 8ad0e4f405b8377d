--------------------------- MODULE MCSpeechAnalysis ---------------------------
(***************************************************************************)
(* Uploads for TLC: sound audio with every pattern of voiced frames, after *)
(* a silence that puts the pattern where rounding matters, and one upload  *)
(* for each thing that can be wrong with a file.                           *)
(***************************************************************************)
EXTENDS SpeechAnalysis

CONSTANTS
  LeadFrames,    \* frames of silence before the pattern
  PatternFrames  \* frames of the pattern

Sound(rate, samples, voiced) ==
  [oversized |-> FALSE, readable |-> TRUE, channels |-> 1, width |-> 2,
   compressed |-> FALSE, rate |-> rate, declared |-> samples, present |-> samples,
   voiced |-> voiced]

Patterns(n) == [1..n -> BOOLEAN]

After(lead, pattern) == [i \in 1..lead |-> FALSE] \o pattern

\* The last frame holds one sample less than a whole one, where a frame has two
\* samples or more.
SoundUploads ==
  {Sound(rate, (lead + PatternFrames) * FrameSize(rate) - short, After(lead, pattern)) :
     rate \in SupportedRates, lead \in LeadFrames,
     short \in {0} \union (IF FrameLength > 1 THEN {1} ELSE {}),
     pattern \in Patterns(PatternFrames)}

Speech == Sound(1, 4 * FrameLength, <<TRUE, TRUE, TRUE, TRUE>>)

BrokenUploads ==
  {[Speech EXCEPT !.oversized = TRUE], [Speech EXCEPT !.readable = FALSE],
   [Speech EXCEPT !.channels = 2], [Speech EXCEPT !.width = 1],
   [Speech EXCEPT !.compressed = TRUE], [Speech EXCEPT !.rate = 4 , !.voiced = <<TRUE>>],
   [Speech EXCEPT !.declared = MaximumFrames * FrameLength + 1],
   [Speech EXCEPT !.declared = 5 * FrameLength],
   Sound(1, 0, <<>>)}

MCUploads == SoundUploads \union BrokenUploads

\* Where 60 ms in three frames comes out below 60, in binary double precision,
\* among the first 36 frames.
MCRoundedDown == {26, 27, 28, 32, 33, 34}
================================================================================
