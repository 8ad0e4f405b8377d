SPECIFICATION Spec
CONSTANTS
  Requests = {r1, r2}
  Services = {s1, s2}
  Confidences = {0, 1}
  MinimumConfidence = 1
  Documents = {"d1", "d2"}
  Invented = {"x"}
  MaximumCited = 2
  Faults = {"policy", "retriever", "generator", "store"}
  Errors = {"policy", "retriever", "generator", "store"}
\* Each request is answered once; then nothing is left to do.
CHECK_DEADLOCK FALSE
INVARIANTS
  TypeOK
  AnswersGrounded
  SensitiveKeptBack
  RecordedOnce
PROPERTIES
  EveryRequestEnds
