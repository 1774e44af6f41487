SPECIFICATION RunningSpec
CONSTANTS
  Entries = {e1, e2}
  Shakedown = FALSE
  StartMode = "GATE"
  Combined = FALSE
  SplitGates = {g1}
  Posted <- NoList
  StartNumber <- Numbers
  Countdown = 1
  Gap = 1
  Interval = 1
  Before = 1
  After = 1
  MinDuration = 1
  FirstStart = 1
  MaxTime = 4
  MaxAttempts = 2
  Passings <- BeamStart
  Workers = {w1}
  Marshals = {m1}
  MaxFailures = 1
  GateRestarts = FALSE
  DeskFails = TRUE
  Interleaved = FALSE
  e1 = e1
  e2 = e2
  g1 = g1
  w1 = w1
  w2 = w2
  m1 = m1
  m2 = m2
PROPERTY TimesEachPassingOnce
CHECK_DEADLOCK FALSE
