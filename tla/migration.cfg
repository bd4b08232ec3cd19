\* Two openers on a file of every version, with rows of every kind, and up to two faults.
SPECIFICATION FairSpec
CONSTANTS
  Openers = {o1, o2}
  StoredRows <- MCRows
  MaxFaults = 2
INVARIANTS
  TypeOK
  OpenIsCurrent
PROPERTIES
  SchemaStaysCoherent
  CurrentIsFinal
  RowsArePreserved
  OpenersGetThrough
