SPECIFICATION Spec
CONSTANTS
  Entries = {e1}
  Shakedown = FALSE
  StartMode = "GATE"
  Combined = FALSE
  SplitGates = {}
  Posted <- NoList
  StartNumber <- Numbers
  Countdown = 1
  Gap = 1
  Interval = 1
  Before = 1
  After = 1
  MinDuration = 1
  FirstStart = 1
  MaxTime = 3
  MaxAttempts = 2
  e1 = e1
  e2 = e2
  e3 = e3
  g1 = g1
PROPERTIES
  NoDnsAfterClose
CHECK_DEADLOCK FALSE
