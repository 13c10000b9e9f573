\* Two requests and the warm-up of one pinned database, whose prompt may turn
\* out too large, on a server shared with other stages.
CONSTANTS
  d1 = d1 d2 = d2 d3 = d3 r1 = r1 r2 = r2 Nobody = Nobody
  Database = {d1}
  Request = {r1, r2}
  MaxSlots = 1
  Pinned <- PinFirst
  SharedServer = TRUE
  OnLoop = TRUE
  TooLarge = {d1}
SPECIFICATION Spec
PROPERTIES
  RequestsEnd
