SPECIFICATION Spec
CONSTANTS
  MaxBorn = 3
  MaxSaves = 3
  MaxCuts = 1
  MaxDamage = 1
INVARIANTS
  OldOrNew
  ReportIsTrue
  LoadsExactly
