SPECIFICATION QueueSpec
CONSTANTS
  Entries = {e1, e2}
  Shakedown = FALSE
  StartMode = "SLOT_SCHEDULE"
  Combined = TRUE
  SplitGates = {}
  Posted <- ListOfOne
  StartNumber <- Numbers
  Countdown = 1
  Gap = 1
  Interval = 1
  Before = 1
  After = 1
  MinDuration = 1
  FirstStart = 2
  MaxTime = 4
  MaxAttempts = 1
  e1 = e1
  e2 = e2
  e3 = e3
  g1 = g1
PROPERTIES
  NeverDueEarlier
  WaitingCrewsStayApart
CHECK_DEADLOCK FALSE
