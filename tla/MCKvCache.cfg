\* One database more than there are slots, and two requests.
CONSTANTS
  d1 = d1 d2 = d2 d3 = d3 r1 = r1 r2 = r2 Nobody = Nobody
  Database = {d1, d2, d3}
  Request = {r1, r2}
  MaxSlots = 2
  Pinned <- NoPin
  SharedServer = FALSE
  OnLoop = FALSE
  TooLarge = {}
SPECIFICATION Spec
SYMMETRY Symmetric
INVARIANTS
  OneHolder
  SlotMapsAgree
  KeptSlotHoldsOwner
  EvictsLeastRecent
