SPECIFICATION QueueSpec
CONSTANTS
  Entries = {e1, e2}
  Shakedown = FALSE
  StartMode = "SLOT_MANUAL"
  Combined = FALSE
  SplitGates = {g1}
  Posted <- NoList
  StartNumber <- Numbers
  Countdown = 1
  Gap = 2
  Interval = 1
  Before = 1
  After = 1
  MinDuration = 1
  FirstStart = 1
  MaxTime = 5
  MaxAttempts = 2
  e1 = e1
  e2 = e2
  e3 = e3
  g1 = g1
INVARIANTS
  SlotsApart
PROPERTIES
  LeftSlotStays
SYMMETRY AnyCar
CHECK_DEADLOCK FALSE
