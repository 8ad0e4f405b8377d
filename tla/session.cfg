SPECIFICATION FairSpec
CONSTANTS
  SessionId = "session"
  Utterances = {u1, u2}
  NoUtterance = NoUtterance
  Responses = {r1, r2}
  NoResponse = NoResponse
  Chunks <- MCChunks
  Rates = {1}
  Lengths = {1, 6}
  LastSequence = 5
  MinimumSpeech = 2
  TrailingSilence = 2
  MaximumUtterance = 6
  MaximumBuffer = 7
  PartialInterval = 2
  MaximumStarts = 3
  Faults = {}
INVARIANTS
  TypeOK
  ResponseOwned
  CancelledOnce
  BufferSound
  EndpointPrompt
  ClientInformed
PROPERTIES
  FateFinal
  AudioOnce
  TurnSpec
  SpeechEnds
