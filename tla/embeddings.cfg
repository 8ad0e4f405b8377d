\* Three processes, two of one revision and one of another whose name gives the
\* same file name, and two audio files.
CONSTANTS
  Processes <- MCProcesses
  Audios <- MCAudios
  Revisions <- MCRevisions
  Revision <- MCRevision
  SafeKey <- MCSafeKey
  Absent = Absent
  Empty = Empty
  Corrupt = Corrupt
  None = None
SPECIFICATION Spec
INVARIANTS
  NoWrongEmbedding
  DamageHasACause
PROPERTIES
  Frozen
CHECK_DEADLOCK TRUE
