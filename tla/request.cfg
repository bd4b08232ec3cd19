\* Every request with up to two unusual fields, submitted again and again.
SPECIFICATION Spec
CONSTANTS
  Requests <- MCRequests
INVARIANTS
  ErrorsAreComplete
  StoredIsUsable
  RefusalsAreKnown
