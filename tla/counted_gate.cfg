SPECIFICATION Spec
CONSTANTS
  Entries = {e1}
  Shakedown = FALSE
  StartMode = "GATE"
  Combined = FALSE
  SplitGates = {g1}
  Posted <- NoList
  StartNumber <- Numbers
  Countdown = 1
  Gap = 1
  Interval = 1
  Before = 1
  After = 1
  MinDuration = 1
  FirstStart = 1
  MaxTime = 3
  MaxAttempts = 2
  e1 = e1
  e2 = e2
  e3 = e3
  g1 = g1
INVARIANTS
  TypeOK
  OneCountingRun
  TimesAgree
  NoOrphanSplit
PROPERTIES
  PassingsTimeOnlyOpenRuns
  ClosingAccountsForEveryCar
  ClosedStageOpensNothing
CHECK_DEADLOCK FALSE
