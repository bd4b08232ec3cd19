\* Every reply to every request, with a remote that changes once during a search; every
\* result stored, read, damaged in one row and read again.
SPECIFICATION RowsSpec
CONSTANTS
  Statuses <- MCStatuses
  MaxChanges = 1
  Bodies <- MCBodies
  AttemptTimes = {t1, t2}
SYMMETRY TimeSymmetry
INVARIANTS
  CollectorResultIsAccepted
  SteadyPolicyIsNotMissed
  NoAddressTwice
  CollectionReadsBack
  DamageIsNoticed
