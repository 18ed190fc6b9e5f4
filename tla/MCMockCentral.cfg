SPECIFICATION Spec
CONSTANTS
  Config = {c1}
  Proxy = {p1, p2}
  Task = {t1}
  Absent = Absent
  MaxEdits = 4
  MaxBatch = 1
SYMMETRY Symmetry
INVARIANTS
  ConflictRecordsAreForks
  VectorsTrackHistory
PROPERTIES
  SavesAreCausal
  MergeAbsorbsBothSides
CHECK_DEADLOCK FALSE
