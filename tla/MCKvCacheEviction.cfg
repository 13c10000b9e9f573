\* Two requests for two databases and one slot.
CONSTANTS
  d1 = d1 d2 = d2 d3 = d3 r1 = r1 r2 = r2 Nobody = Nobody
  Database = {d1, d2}
  Request = {r1, r2}
  MaxSlots = 1
  Pinned <- NoPin
  SharedServer = FALSE
  OnLoop = FALSE
  TooLarge = {}
SPECIFICATION Spec
INVARIANTS
  WarmedSlotHoldsOwner
