\* Every evaluation around both thresholds, read and decided upon in any order.
SPECIFICATION ReviewSpec
CONSTANTS
  Day = 2
  StrictLifetime = 180
  StrictRecency = 180
  BroaderRecency = 730
  Lifetimes <- MCLifetimes
  Attempts = {2}
  Commits = {2}
  Instants <- MCInstants
  EvidenceSets <- MCEvidenceSets
INVARIANTS
  StricterNeverHelps
  DaysAgreeWithFinding
  EveryGapIsExplained
  PrintedAcknowledgmentsSuffice
  ApprovalIsInformed
PROPERTIES
  AgeingNeverHelps
