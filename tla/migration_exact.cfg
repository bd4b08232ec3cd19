\* The documented rule that a migration starts from the exact prior version.
SPECIFICATION Spec
CONSTANTS
  Openers = {o1, o2}
  StoredRows <- MCOneRow
  MaxFaults = 0
PROPERTIES
  MigratesFromExactVersion
