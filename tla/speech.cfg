SPECIFICATION Spec
CONSTANTS
  Uploads <- MCUploads
  SupportedRates = {1, 2, 3, 6}
  TargetRate = 2
  FrameLength = 2
  MaximumFrames = 40
  MinimumFrames = 3
  AllowedSilence = 1
  RoundedDown <- MCRoundedDown
  Providers = {"deterministic", "faster_whisper"}
  Faults = {"dependency", "transcriber", "recognizer"}
  LeadFrames = {0, 25}
  PatternFrames = 9
\* A request is answered once.
CHECK_DEADLOCK FALSE
INVARIANTS
  TypeOK
  SegmentsAreIslands
  PreparedFromSpeech
  RejectedBeforeProvider
