SPECIFICATION AnySpec
CONSTANTS
  write = write
  p = p
  b = b
  r1 = r1
  f1 = f1
  f2 = f2
  c = c
  d = d
  Calls <- MCCalls
  File <- MCFile
  Background <- MCBackground
  Status <- MCStatus
  MaxTurns = 3
  MaxFailures = 1
  MaxCrashes = 1
SYMMETRY Alike
CHECK_DEADLOCK FALSE
INVARIANTS TypeOK RecoveryKnows AgreedStays ToolsSafe TreeSafe
PROPERTIES NothingOverUnknown FilesWait EvidenceIsCurrent ArchiveKept
