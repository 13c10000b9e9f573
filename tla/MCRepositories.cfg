SPECIFICATION MCSpec
CONSTANTS
  q1 = q1  q2 = q2  first = first  second = second  r1 = r1
  Request = {q1, q2}
  Process = {first, second}
  Run = {r1, r2, r3}
  Temp = {t1, t2}
  Feedback = {f1}
  NoFeedback = NoFeedback
  NoFile = NoFile
  MaxFiles = 2
  MaxAge = 2
  MaxClock = 4
  Reader = {d1, d2}
  Writer = {w1, w2}
  Foreign = {w2}
  Content = {old, new}
  Torn = Torn
  Missing = Missing
  MaxSignature = 4
INVARIANTS
  HistoryExplainsArtifacts
  OneProcessRetains
  ReadIsFresh
VIEW View
SYMMETRY Alike
CHECK_DEADLOCK FALSE
