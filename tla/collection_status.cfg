\* The documented classification: any other status is a nonretryable failure.
SPECIFICATION Spec
CONSTANTS
  Statuses <- MCStatuses
  MaxChanges = 0
INVARIANTS
  EveryStatusEndsInAnOutcome
