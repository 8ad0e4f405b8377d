SPECIFICATION Spec
CONSTANTS
  Sockets = {s1, s2, s3}
  Names = {n1, n2, n3}
  NoName = NoName
  MaximumSessions = 2
  Inactive = 2
  MaximumTime = 4
  MaximumCreated = 4
  Faults = {}
SYMMETRY Symmetry
INVARIANTS
  AtMostMaximumLive
