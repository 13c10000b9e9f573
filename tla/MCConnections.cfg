SPECIFICATION MCSpec
CONSTANTS
  r1 = r1  r2 = r2
  Request = {r1, r2}
  Connection <- Forms
  Builtin <- Settings
  DefaultPort = "5432"
  Fault = {"write", "death"}
  Absent = Absent
  Missing = Missing  Empty = Empty  Torn = Torn
INVARIANTS
  OneEntryPerDatabase
  AnswerReachesAsked
  FilesAreSound
PROPERTIES
  OneThreadKeeps
SYMMETRY RequestSymmetry
