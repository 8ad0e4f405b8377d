SPECIFICATION Spec
CONSTANTS
  SessionId = "session"
  Utterances = {u1, u2}
  NoUtterance = NoUtterance
  Responses = {r1, r2}
  NoResponse = NoResponse
  Chunks <- MCChunks
  Rates = {1}
  Lengths = {1}
  LastSequence = 6
  MinimumSpeech = 2
  TrailingSilence = 2
  MaximumUtterance = 5
  MaximumBuffer = 6
  PartialInterval = 2
  MaximumStarts = 2
  Faults = {}
INVARIANTS
  OpenUtteranceShort
