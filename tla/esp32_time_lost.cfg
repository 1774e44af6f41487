SPECIFICATION Spec
CONSTANTS
  Taps = {d1, d2}
  Capacity = 2
  MaxInFlight = 1
  AckQueue = 1
  Ids = {1, 2, 3}
  MaxTime = 2
  MaxBoots = 2
  MaxIncidents = 1
  d1 = d1
  d2 = d2
INVARIANTS
  TimeLostOnlyUnsynced
