\* Two editions of a taxonomy of two templates, one of which the generator runs to its
\* end (eight cases) and the other until it fails after five; two report files, each
\* written once; one file replaced; 75 pairs of a reference and a hypothesis of up to
\* three words; 192 outcomes of the classifiers.
CONSTANTS
  Editions <- MCEditions
  HandMade <- MCHandMade
  Suffix <- MCSuffix
  Tried <- MCTried
  Heard <- MCHeard
  Latency <- MCLatency
  Raises = Raises
  Absent = Absent
  Escaped = Escaped
  Slots = {one, two}
  Scale = 180
  Runs <- MCRuns
  Replacements <- MCReplacements
  Strengths <- MCStrengths
  Fitted <- MCFitted
  Likelihood <- MCLikelihood
  Scaled <- MCScaled
  Letters <- Words
  MinimumAccuracy = 80
SPECIFICATION StudySpec
INVARIANTS
  HeldOut
  SelectionHonest
PROPERTIES
  AuditVouches
  GeneratedPasses
  ReportsAddUp
CHECK_DEADLOCK FALSE
