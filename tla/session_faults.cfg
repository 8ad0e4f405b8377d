SPECIFICATION Spec
CONSTANTS
  SessionId = "session"
  Utterances = {u1, u2}
  NoUtterance = NoUtterance
  Responses = {r1, r2}
  NoResponse = NoResponse
  Chunks <- MCChunks
  Rates = {1, 2}
  Lengths = {1, 6}
  LastSequence = 3
  MinimumSpeech = 2
  TrailingSilence = 2
  MaximumUtterance = 5
  MaximumBuffer = 6
  PartialInterval = 2
  MaximumStarts = 3
  Faults = {"transcriber", "cancel"}
INVARIANTS
  ResponseOwned
