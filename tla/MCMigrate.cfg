SPECIFICATION MigrateSpec
CONSTANTS
  r1 = r1
  r2 = r2
  a = a
  b = b
  Runners = {r1, r2}
  Versions = {1, 2, 10}
  Contents = {a, b}
  NoTransaction <- Marked
  Guarded <- IndexBuilds
  MaxChanges = 2
  MaxKills = 1
SYMMETRY Symmetry
CHECK_DEADLOCK FALSE
INVARIANTS SchemaIsOrdered RecordsAreTrue
PROPERTIES AppliesOnAgreement
