SPECIFICATION Spec
CONSTANTS
  Config = {c1, c2}
  Puller = {periodic, forced}
  Absent = Absent
  Page = 1
  Skew = 1
  MaxTime = 4
  MaxSaves = 3
SYMMETRY Symmetry
INVARIANTS
  WatermarkMissesNothingElse
